---- MODULE Spec2Model ----
(***************************************************************************)
(* A model of the diagnostic and setup scripts of the repository.  Every   *)
(* script is a top-to-bottom procedure; a behaviour of the model is one    *)
(* run of one script: Init chooses the script and the world it starts in   *)
(* (process environment, local files), and each action is one step of the  *)
(* script's code.  The outcome of every call that leaves the process (an   *)
(* SDK call, a subprocess) is chosen by the step that issues it.           *)
(*                                                                         *)
(* Strings are TLA+ strings; the string functions the code uses (lower,    *)
(* in, replace, split, slicing) are computed character by character.       *)
(* Python's None is the empty tuple and a present value v is <<v>>.        *)
(***************************************************************************)
EXTENDS Integers, Sequences, FiniteSets, TLC

VARIABLES
    script,     \* the script this run executes
    pc,         \* the position of the run in the script
    environ,    \* os.environ: a function from the keys that are set to strings
    fs,         \* the local files the script looks at
    out,        \* the lines printed so far, in order
    net,        \* the calls that left the process so far, in order
    loc         \* the script's local variables

vars == <<script, pc, environ, fs, out, net, loc>>

---------------------------------------------------------------------------
(* Python values and string functions *)

None == <<>>

Some(v) == <<v>>

\* a truth test that only asks for a value ("is not None")
TruthyNotNone(o) == o # None

\* Python truthiness of an Optional[str]: None and "" are false.
Truthy(o) == o # None /\ o[1] # ""

\* os.getenv(k) / os.environ.get(k)
Getenv(e, k) == IF k \in DOMAIN e THEN Some(e[k]) ELSE None

\* load_dotenv(override=False): a key of the file is set only if the process
\* environment does not hold it already; with override=True the file wins.
\* Without a .env file nothing changes.
LoadDotenv(e, file, override) ==
    IF file = None THEN e
    ELSE IF override THEN file[1] @@ e ELSE e @@ file[1]

Max(a, b) == IF a >= b THEN a ELSE b

\* sub in s
Contains(s, sub) ==
    \E i \in 1..(Len(s) - Len(sub) + 1) : SubSeq(s, i, i + Len(sub) - 1) = sub

UpperChars == "ABCDEFGHIJKLMNOPQRSTUVWXYZ"

LowerChars == "abcdefghijklmnopqrstuvwxyz"

LowerChar(c) ==
    IF \E i \in 1..Len(UpperChars) : SubSeq(UpperChars, i, i) = c
    THEN LET i == CHOOSE j \in 1..Len(UpperChars) : SubSeq(UpperChars, j, j) = c
         IN  SubSeq(LowerChars, i, i)
    ELSE c

\* s.lower()
RECURSIVE Lower(_)
Lower(s) ==
    IF s = "" THEN ""
    ELSE LowerChar(SubSeq(s, 1, 1)) \o Lower(SubSeq(s, 2, Len(s)))

\* s.replace(old, ""), for a non-empty old: every occurrence, left to right
RECURSIVE Remove(_, _)
Remove(s, old) ==
    IF Len(s) < Len(old) THEN s
    ELSE IF SubSeq(s, 1, Len(old)) = old
         THEN Remove(SubSeq(s, Len(old) + 1, Len(s)), old)
         ELSE SubSeq(s, 1, 1) \o Remove(SubSeq(s, 2, Len(s)), old)

\* s.split(sep)[0], for a one-character sep
RECURSIVE SplitFirst(_, _)
SplitFirst(s, sep) ==
    IF s = "" \/ SubSeq(s, 1, 1) = sep THEN ""
    ELSE SubSeq(s, 1, 1) \o SplitFirst(SubSeq(s, 2, Len(s)), sep)

\* '*' * n  (the empty string for n <= 0)
RECURSIVE Stars(_)
Stars(n) == IF n <= 0 THEN "" ELSE "*" \o Stars(n - 1)

\* s[-4:]
Last4(s) == SubSeq(s, Max(1, Len(s) - 3), Len(s))

\* '*' * (len(key) - 4) + key[-4:]
MaskKey(key) == Stars(Len(key) - 4) \o Last4(key)

\* all functions from a subset of keys to vals
Environments(keys, vals) == UNION { [ks -> vals] : ks \in SUBSET keys }

---------------------------------------------------------------------------
(* Quickstart: setup_environment.py and validate_connection.py *)

EndpointPlaceholder == "https://your-service-name.search.windows.net"

ApiKeyPlaceholder == "your-admin-api-key-here"

QuickKeys == {"SEARCH-ENDPOINT", "SEARCH-API-KEY"}

\* the values a run may find for a key: empty, the placeholder of sample.env,
\* and real values (for the key, of less than, exactly and more than 4 characters)
QuickVals(k) ==
    IF k = "SEARCH-ENDPOINT"
    THEN {"", EndpointPlaceholder, "https://contoso.search.windows.net"}
    ELSE {"", ApiKeyPlaceholder, "k3y", "s3cr3tK3y"}

QuickEnvironments ==
    { e \in Environments(QuickKeys, UNION { QuickVals(k) : k \in QuickKeys }) :
        \A k \in DOMAIN e : e[k] \in QuickVals(k) }

\* sample.env as the repository ships it
SampleEnvContent ==
    [k \in QuickKeys |-> IF k = "SEARCH-ENDPOINT" THEN EndpointPlaceholder
                                                  ELSE ApiKeyPlaceholder]

\* check_env_file() with the two checks in the other order
CheckEnvFileKeyFirst(f, e) ==
    IF f.dotEnv = None
    THEN [ret |-> FALSE, out |-> <<"No .env file found!">>, environ |-> e]
    ELSE LET e2 == LoadDotenv(e, f.dotEnv, FALSE)
             search_endpoint == Getenv(e2, "SEARCH-ENDPOINT")
             search_api_key == Getenv(e2, "SEARCH-API-KEY")
             hdr == <<"Checking environment variables...">>
         IN  IF ~Truthy(search_api_key)
             THEN [ret |-> FALSE, environ |-> e2,
                   out |-> hdr \o <<"SEARCH-API-KEY is not set">>]
             ELSE IF search_api_key[1] = ApiKeyPlaceholder
             THEN [ret |-> FALSE, environ |-> e2,
                   out |-> hdr \o <<"SEARCH-API-KEY still has the placeholder value">>]
             ELSE LET o1 == hdr \o <<"SEARCH-API-KEY: " \o MaskKey(search_api_key[1])>>
                  IN  IF ~Truthy(search_endpoint)
                      THEN [ret |-> FALSE, environ |-> e2,
                            out |-> o1 \o <<"SEARCH-ENDPOINT is not set">>]
                      ELSE IF search_endpoint[1] = EndpointPlaceholder
                      THEN [ret |-> FALSE, environ |-> e2,
                            out |-> o1 \o <<"SEARCH-ENDPOINT still has the placeholder value">>]
                      ELSE [ret |-> TRUE, environ |-> e2,
                            out |-> o1 \o <<"SEARCH-ENDPOINT: " \o search_endpoint[1]>>]

\* check_env_file(): the value returned, the lines printed and os.environ
\* after load_dotenv(), from the files and the environment it finds
CheckEnvFile(f, e) ==
    IF f.dotEnv = None
    THEN [ret |-> FALSE, out |-> <<"No .env file found!">>, environ |-> e]
    ELSE LET e2 == LoadDotenv(e, f.dotEnv, FALSE)
             search_endpoint == Getenv(e2, "SEARCH-ENDPOINT")
             search_api_key == Getenv(e2, "SEARCH-API-KEY")
             hdr == <<"Checking environment variables...">>
         IN  IF ~Truthy(search_endpoint)
             THEN [ret |-> FALSE, environ |-> e2,
                   out |-> hdr \o <<"SEARCH-ENDPOINT is not set">>]
             ELSE IF search_endpoint[1] = EndpointPlaceholder
             THEN [ret |-> FALSE, environ |-> e2,
                   out |-> hdr \o <<"SEARCH-ENDPOINT still has the placeholder value">>]
             ELSE LET o1 == hdr \o <<"SEARCH-ENDPOINT: " \o search_endpoint[1]>>
                  IN  IF ~Truthy(search_api_key)
                      THEN [ret |-> FALSE, environ |-> e2,
                            out |-> o1 \o <<"SEARCH-API-KEY is not set">>]
                      ELSE IF search_api_key[1] = ApiKeyPlaceholder
                      THEN [ret |-> FALSE, environ |-> e2,
                            out |-> o1 \o <<"SEARCH-API-KEY still has the placeholder value">>]
                      ELSE [ret |-> TRUE, environ |-> e2,
                            out |-> o1 \o <<"SEARCH-API-KEY: " \o MaskKey(search_api_key[1])>>]

\* create_env_file() without the test of lines 61-63
CreateEnvFileOverwriting(f, copyOk) ==
    IF f.sampleEnv = None
    THEN [ret |-> FALSE, fs |-> f, out |-> <<"sample.env file not found!">>]
    ELSE IF copyOk
    THEN [ret |-> TRUE, fs |-> [f EXCEPT !.dotEnv = f.sampleEnv],
          out |-> <<"Created .env file from sample.env",
                    "Please edit .env with your actual Azure Search service details">>]
    ELSE [ret |-> FALSE, fs |-> f, out |-> <<"Failed to create .env file">>]

\* create_env_file(): the value returned, the lines printed and the files
\* afterwards; copyOk is whether shutil.copy succeeds
CreateEnvFile(f, copyOk) ==
    IF f.sampleEnv = None
    THEN [ret |-> FALSE, fs |-> f, out |-> <<"sample.env file not found!">>]
    ELSE IF f.dotEnv # None
    THEN [ret |-> TRUE, fs |-> f, out |-> <<".env file already exists. Skipping creation.">>]
    ELSE IF copyOk
    THEN [ret |-> TRUE, fs |-> [f EXCEPT !.dotEnv = f.sampleEnv],
          out |-> <<"Created .env file from sample.env",
                    "Please edit .env with your actual Azure Search service details">>]
    ELSE [ret |-> FALSE, fs |-> f, out |-> <<"Failed to create .env file">>]

SetupInit ==
    /\ script = "setup_environment"
    /\ pc = "main"
    /\ environ \in QuickEnvironments
    /\ fs \in [notebook : BOOLEAN,
               sampleEnv : {None, Some(SampleEnvContent)},
               dotEnv : {None} \cup { Some(c) : c \in QuickEnvironments }]
    /\ loc = [ret |-> None]

\* main(), lines 76-82: the banner and the directory check
SetupCheckDirectory ==
    /\ script = "setup_environment" /\ pc = "main"
    /\ IF ~fs.notebook
       THEN /\ out' = out \o <<"Azure AI Search Quickstart Environment Setup",
                               "Please run this script from the Quickstart directory">>
            /\ pc' = "done"
       ELSE /\ out' = out \o <<"Azure AI Search Quickstart Environment Setup">>
            /\ pc' = IF fs.dotEnv = None THEN "create_env" ELSE "check_env"
    /\ UNCHANGED <<script, environ, fs, net, loc>>

\* main(), lines 85-88: create .env from sample.env when there is none
SetupCreateEnv ==
    /\ script = "setup_environment" /\ pc = "create_env"
    /\ \E copyOk \in BOOLEAN :
         LET r == CreateEnvFile(fs, copyOk)
         IN  /\ fs' = r.fs
             /\ out' = out \o <<"Creating .env file...">> \o r.out
             /\ pc' = IF r.ret THEN "check_env" ELSE "done"
    /\ UNCHANGED <<script, environ, net, loc>>

\* main(), lines 91-96: check the variables and print the verdict
SetupCheckEnv ==
    /\ script = "setup_environment" /\ pc = "check_env"
    /\ LET r == CheckEnvFile(fs, environ)
       IN  /\ environ' = r.environ
           /\ loc' = [loc EXCEPT !.ret = Some(r.ret)]
           /\ out' = out \o r.out \o
                     (IF r.ret THEN <<"Environment is properly configured!">>
                               ELSE <<"Environment is not properly configured.">>)
    /\ pc' = "done"
    /\ UNCHANGED <<script, fs, net>>

\* validate_connection.py starts from the environment and the .env file only
VcInit ==
    /\ script = "validate_connection"
    /\ pc = "validate"
    /\ environ \in QuickEnvironments
    /\ fs \in [notebook : {TRUE}, sampleEnv : {None},
               dotEnv : {None} \cup { Some(c) : c \in QuickEnvironments }]
    /\ loc = [ret |-> None]

\* what list(index_client.list_indexes()) and the two constructors before it
\* can do: "ClientError" is an exception raised before any request is sent
ListIndexesOutcomes ==
    {"ok", "ServiceRequestError", "HttpResponseError", "Exception", "ClientError"}

\* main() line 69 and validate_connection() lines 13-29: load the variables,
\* stop when one is missing, else show them
VcLoad ==
    /\ script = "validate_connection" /\ pc = "validate"
    /\ LET e2 == LoadDotenv(environ, fs.dotEnv, FALSE)
           search_endpoint == Getenv(e2, "SEARCH-ENDPOINT")
           search_api_key == Getenv(e2, "SEARCH-API-KEY")
           hdr == <<"Azure AI Search Connection Validator",
                    "Validating Azure Search connection...">>
       IN  /\ environ' = e2
           /\ IF ~Truthy(search_endpoint) \/ ~Truthy(search_api_key)
              THEN /\ out' = out \o hdr \o <<"Missing environment variables!",
                                             "Connection validation failed.">>
                   /\ loc' = [loc EXCEPT !.ret = Some(FALSE)]
                   /\ pc' = "done"
              ELSE /\ out' = out \o hdr \o
                             <<"Endpoint: " \o search_endpoint[1],
                               "API Key: " \o MaskKey(search_api_key[1])>>
                   /\ loc' = loc
                   /\ pc' = "list_indexes"
    /\ UNCHANGED <<script, fs, net>>

\* validate_connection() lines 31-65 and main() lines 70-76: one list_indexes
\* call, its outcome classified, the verdict printed
VcListIndexes ==
    /\ script = "validate_connection" /\ pc = "list_indexes"
    /\ \E o \in ListIndexesOutcomes :
         /\ net' = IF o = "ClientError" THEN net ELSE Append(net, "list_indexes")
         /\ loc' = [loc EXCEPT !.ret = Some(o = "ok")]
         /\ out' = out \o
              (CASE o = "ok" -> <<"Testing connection...", "Connection successful!",
                                  "Your Azure Search service is ready to use!">>
                 [] o = "ServiceRequestError" ->
                        <<"Testing connection...", "Connection failed",
                          "Connection validation failed.">>
                 [] o = "HttpResponseError" ->
                        <<"Testing connection...", "Authentication failed",
                          "Connection validation failed.">>
                 [] o = "Exception" ->
                        <<"Testing connection...", "Unexpected error",
                          "Connection validation failed.">>
                 [] o = "ClientError" ->
                        <<"Unexpected error", "Connection validation failed.">>)
    /\ pc' = "done"
    /\ UNCHANGED <<script, environ, fs>>

---------------------------------------------------------------------------
(* Quickstart-Agentic-Retrieval: check_azure_region.py and check_region.py *)

\* the longest service name or CLI answer tried, in fragments
MaxParts == 2

\* x in seq (Python's "in" on a list)
InList(x, seq) == \E i \in 1..Len(seq) : seq[i] = x

\* the list with its last entry forgotten
SupportedRegionsShort ==
    <<"East US", "West US 2", "North Europe", "West Europe",
      "UK South", "Australia East">>

\* supported_regions, in the order of the list
SupportedRegions ==
    <<"East US", "West US 2", "North Europe", "West Europe",
      "UK South", "Australia East", "Canada East">>

\* region_mappings of check_supported_regions(), in insertion order
RegionMappings ==
    << <<"eastus", "East US">>,
       <<"westus2", "West US 2">>,
       <<"northeurope", "North Europe">>,
       <<"westeurope", "West Europe">>,
       <<"uksouth", "UK South">>,
       <<"australiaeast", "Australia East">>,
       <<"canadaeast", "Canada East">> >>

\* region_patterns of check_service_region(), in insertion order
RegionPatterns ==
    << <<"eastus", "East US">>,
       <<"westus2", "West US 2">>,
       <<"northeurope", "North Europe">>,
       <<"westeurope", "West Europe">>,
       <<"uksouth", "UK South">>,
       <<"australiaeast", "Australia East">>,
       <<"canadaeast", "Canada East">>,
       <<"centralus", "Central US">>,
       <<"southcentralus", "South Central US">>,
       <<"westus", "West US">>,
       <<"eastus2", "East US 2">>,
       <<"brazilsouth", "Brazil South">>,
       <<"japaneast", "Japan East">>,
       <<"southeastasia", "Southeast Asia">>,
       <<"koreacentral", "Korea Central">> >>

\* s.strip(): leading and trailing blanks and newlines removed
IsSpace(c) == c = " " \/ c = "\n"

RECURSIVE LStrip(_)
LStrip(s) ==
    IF s # "" /\ IsSpace(SubSeq(s, 1, 1)) THEN LStrip(SubSeq(s, 2, Len(s))) ELSE s

RECURSIVE RStrip(_)
RStrip(s) ==
    IF s # "" /\ IsSpace(SubSeq(s, Len(s), Len(s)))
    THEN RStrip(SubSeq(s, 1, Len(s) - 1)) ELSE s

Strip(s) == RStrip(LStrip(s))

\* azure_openai_endpoint.replace("https://", "").split(".")[0]
ServiceName(endpoint) == SplitFirst(Remove(endpoint, "https://"), ".")

\* the list of show_european_options() printed in its place
RegionLinesEuropean ==
    <<"  * North Europe", "  * West Europe", "  * UK South">>

\* the lines that list the supported regions
RegionLines == [i \in 1..Len(SupportedRegions) |-> "  * " \o SupportedRegions[i]]

\* the loop of check_region_support over region_mappings from entry i on: the
\* mapped region of the first entry that matches in either direction and is
\* supported, None when the loop ends
RECURSIVE MappedRegion(_, _)
MappedRegion(region_lower, i) ==
    IF i > Len(RegionMappings) THEN None
    ELSE LET pattern == RegionMappings[i][1]
             mapped_region == RegionMappings[i][2]
         IN  IF /\ Contains(region_lower, pattern) \/ Contains(pattern, region_lower)
                /\ InList(mapped_region, SupportedRegions)
             THEN Some(mapped_region)
             ELSE MappedRegion(region_lower, i + 1)

\* check_region_support(region): the value returned and the lines printed
CheckRegionSupport(region) ==
    LET hdr == <<"CHECKING RESPONSES API SUPPORT", "Checking region: " \o region>>
    IN  IF InList(region, SupportedRegions)
        THEN [ret |-> TRUE, out |-> hdr \o <<"This region supports the Responses API!">>]
        ELSE LET mapped == MappedRegion(Lower(region), 1)
             IN  IF mapped # None
                 THEN [ret |-> TRUE,
                       out |-> hdr \o <<"This region (" \o mapped[1]
                                        \o ") supports the Responses API!">>]
                 ELSE [ret |-> FALSE,
                       out |-> hdr \o <<"This region does NOT support the Responses API.">>]

\* the same loop without its break: the last pattern found wins
RECURSIVE FoundRegionNoBreak(_, _)
FoundRegionNoBreak(service_lower, i) ==
    IF i > Len(RegionPatterns) THEN None
    ELSE LET rest == FoundRegionNoBreak(service_lower, i + 1)
         IN  IF rest # None THEN rest
             ELSE IF Contains(service_lower, RegionPatterns[i][1])
                  THEN Some(RegionPatterns[i][2])
                  ELSE None

\* the loop of check_service_region over region_patterns from entry i on, with
\* its break at the first pattern found in the service name
RECURSIVE FoundRegion(_, _)
FoundRegion(service_lower, i) ==
    IF i > Len(RegionPatterns) THEN None
    ELSE IF Contains(service_lower, RegionPatterns[i][1])
         THEN Some(RegionPatterns[i][2])
         ELSE FoundRegion(service_lower, i + 1)

\* check_service_region(): the lines printed, service_lower and found_region,
\* from os.environ
CheckServiceRegion(e) ==
    LET azure_openai_endpoint == Getenv(e, "AZURE_OPENAI_ENDPOINT")
        hdr == <<"CHECKING AZURE OPENAI SERVICE REGION">>
    IN  IF ~Truthy(azure_openai_endpoint)
        THEN [found |-> None, service_lower |-> None,
              out |-> hdr \o <<"AZURE_OPENAI_ENDPOINT not found in .env file">>]
        ELSE IF ~Contains(azure_openai_endpoint[1], "openai.azure.com")
        THEN [found |-> None, service_lower |-> None,
              out |-> hdr \o <<"Endpoint: " \o azure_openai_endpoint[1],
                               "Endpoint doesn't match expected Azure OpenAI format.">>]
        ELSE LET service_name == ServiceName(azure_openai_endpoint[1])
                 service_lower == Lower(service_name)
                 found_region == FoundRegion(service_lower, 1)
                 o1 == hdr \o <<"Endpoint: " \o azure_openai_endpoint[1],
                                "Service Name: " \o service_name>>
             IN  IF found_region # None
                 THEN [found |-> found_region, service_lower |-> Some(service_lower),
                       out |-> o1 \o <<"Detected Region: " \o found_region[1]>> \o
                           (IF InList(found_region[1], SupportedRegions)
                            THEN <<"This region supports the Responses API!",
                                   "The issue might be with your service configuration.">>
                            ELSE <<"This region does NOT support the Responses API.",
                                   "You need to create a new service in a supported region.">>)]
                 ELSE [found |-> None, service_lower |-> Some(service_lower),
                       out |-> o1 \o <<"Could not determine region from service name.",
                                       "Check your Azure portal for the exact region.">>]

\* the tokens of region_patterns
Tokens == { RegionPatterns[i][1] : i \in 1..Len(RegionPatterns) }

\* the fragments longer service names and CLI answers are put together from:
\* tokens, among them those that contain one another, and pieces that are no
\* token
Fragments ==
    {"eastus", "eastus2", "westus", "westus2", "centralus", "southcentralus",
     "northeurope", "koreacentral", "contoso", "-", "us", "east"}

\* the strings of at most n fragments
RECURSIVE Names(_)
Names(n) ==
    IF n = 0 THEN {""}
    ELSE Names(n - 1) \cup { a \o f : a \in Names(n - 1), f \in Fragments }

\* the endpoints a run may be configured with
OpenAIEndpoints ==
    { "https://" \o n \o ".openai.azure.com" : n \in Names(MaxParts) \cup Tokens }
        \cup {"", "https://Contoso-EastUS2.openai.azure.com",
              "https://contoso.cognitiveservices.azure.com"}

OpenAIEnvironments == Environments({"AZURE_OPENAI_ENDPOINT"}, OpenAIEndpoints)

\* the .env files a region script may find: none, or one that names contoso
OpenAIDotEnvs ==
    {None, Some([k \in {"AZURE_OPENAI_ENDPOINT"} |-> "https://contoso.openai.azure.com"])}

\* what `az cognitiveservices account show ... --output tsv` may write
CliStdouts ==
    { n \o "\n" : n \in Names(MaxParts) \cup Tokens }
        \cup {"East US\n", "West US 2\n", "North Europe\n", "West Europe\n",
              "UK South\n", "Australia East\n", "Canada East\n"}
        \cup {"Mars Base One\n", "East US 2\n", "West US\n", "EASTUS\n", "\n", ""}

CrInit ==
    /\ script = "check_region"
    /\ pc = "load"
    /\ environ \in OpenAIEnvironments
    /\ fs \in [notebook : {TRUE}, sampleEnv : {None}, dotEnv : OpenAIDotEnvs]
    /\ loc = [found |-> None, service_lower |-> None]

\* line 9: load_dotenv(override=True)
CrLoad ==
    /\ script = "check_region" /\ pc = "load"
    /\ environ' = LoadDotenv(environ, fs.dotEnv, TRUE)
    /\ pc' = "check_service_region"
    /\ UNCHANGED <<script, fs, out, net, loc>>

\* main() lines 104-107: the banner and check_service_region()
CrCheckServiceRegion ==
    /\ script = "check_region" /\ pc = "check_service_region"
    /\ LET r == CheckServiceRegion(environ)
       IN  /\ out' = out \o <<"AZURE OPENAI REGION CHECKER">> \o r.out
           /\ loc' = [found |-> r.found, service_lower |-> r.service_lower]
    /\ pc' = "show_supported_regions"
    /\ UNCHANGED <<script, environ, fs, net>>

\* main() lines 108-117: show_supported_regions() and the next steps
CrShowSupportedRegions ==
    /\ script = "check_region" /\ pc = "show_supported_regions"
    /\ out' = out \o <<"RESPONSES API SUPPORTED REGIONS",
                       "The Responses API is available in these regions:">>
                  \o RegionLines \o <<"NEXT STEPS:">>
    /\ pc' = "done"
    /\ UNCHANGED <<script, environ, fs, net, loc>>

AzInit ==
    /\ script = "check_azure_region"
    /\ pc = "load"
    /\ environ \in Environments({"AZURE_OPENAI_ENDPOINT"},
                                {"", "https://contoso-eastus.openai.azure.com"})
    /\ fs \in [notebook : {TRUE}, sampleEnv : {None}, dotEnv : OpenAIDotEnvs]
    /\ loc = [region |-> None, supports |-> None]

\* line 12: load_dotenv(override=True)
AzLoad ==
    /\ script = "check_azure_region" /\ pc = "load"
    /\ environ' = LoadDotenv(environ, fs.dotEnv, TRUE)
    /\ pc' = "check_with_azure_cli"
    /\ UNCHANGED <<script, fs, out, net, loc>>

\* main() lines 116-120 and check_with_azure_cli(): without an endpoint no
\* command is run; else az is run once and answers with a location (return code
\* 0), with an error, or cannot be started
AzCheckWithCli ==
    /\ script = "check_azure_region" /\ pc = "check_with_azure_cli"
    /\ LET azure_openai_endpoint == Getenv(environ, "AZURE_OPENAI_ENDPOINT")
           hdr == <<"AZURE OPENAI REGION DETECTOR", "CHECKING REGION WITH AZURE CLI">>
       IN  IF ~Truthy(azure_openai_endpoint)
           THEN /\ out' = out \o hdr \o <<"AZURE_OPENAI_ENDPOINT not found">>
                /\ UNCHANGED <<net, loc>>
           ELSE LET o1 == hdr \o <<"Service Name: " \o ServiceName(azure_openai_endpoint[1])>>
                IN  \/ \E stdout \in CliStdouts :
                         /\ net' = Append(net, "az cognitiveservices account show")
                         /\ out' = out \o o1 \o <<"Region: " \o Strip(stdout)>>
                         /\ loc' = [loc EXCEPT !.region = Some(Strip(stdout))]
                    \/ /\ net' = Append(net, "az cognitiveservices account show")
                       /\ out' = out \o o1 \o <<"Azure CLI error">>
                       /\ UNCHANGED loc
                    \/ /\ out' = out \o o1 \o <<"Error running Azure CLI">>
                       /\ UNCHANGED <<net, loc>>
    /\ pc' = "report"
    /\ UNCHANGED <<script, environ, fs>>

\* main() lines 122-148: the verdict for the region found, or the list of the
\* supported regions when none was found; then the next steps
AzReport ==
    /\ script = "check_azure_region" /\ pc = "report"
    /\ IF Truthy(loc.region)
       THEN LET r == CheckRegionSupport(loc.region[1])
            IN  /\ loc' = [loc EXCEPT !.supports = Some(r.ret)]
                /\ out' = out \o r.out \o
                          (IF ~r.ret THEN <<"EUROPEAN REGION OPTIONS">> ELSE <<>>)
                          \o <<"NEXT STEPS:">>
       ELSE /\ loc' = loc
            /\ out' = out \o <<"Could not determine region automatically.",
                               "Please check manually in Azure Portal:",
                               "CHECKING RESPONSES API SUPPORT",
                               "Supported regions for Responses API:">>
                          \o RegionLines \o <<"NEXT STEPS:">>
    /\ pc' = "done"
    /\ UNCHANGED <<script, environ, fs, net>>

---------------------------------------------------------------------------
(* Quickstart-Agentic-Retrieval: check_responses_api.py, fix_responses_api.py
   and fix_notebook.py *)

\* os.getenv(k, default)
GetenvDefault(e, k, default) == IF k \in DOMAIN e THEN e[k] ELSE default

\* the process environments the three scripts are run in
ResponsesEnvironments ==
    { <<>>,
      [k \in {"AZURE_OPENAI_ENDPOINT"} |-> ""],
      [k \in {"AZURE_OPENAI_ENDPOINT"} |-> "https://contoso-eastus.openai.azure.com"],
      [k \in {"AZURE_OPENAI_ENDPOINT"} |-> "https://contoso.cognitiveservices.azure.com"],
      [k \in {"AZURE_OPENAI_ENDPOINT", "AZURE_OPENAI_API_VERSION"} |->
          IF k = "AZURE_OPENAI_ENDPOINT" THEN "https://contoso.openai.azure.com"
                                         ELSE "2024-10-21"] }

\* str(e) of the exceptions a request may raise
ErrorMessages ==
    {"Error code: 404 - Resource not found",
     "Error code: 401 - Unauthorized",
     "Error code: 400 - Bad request",
     "Error code: 429 - Too many requests",
     "Error code: 401 - Unauthorized (request 4047)",
     "Connection error.",
     "DefaultAzureCredential failed to retrieve a token"}

\* str(e) of the exceptions the constructors before a request may raise
ClientErrorMessages == {"Missing credentials"}

\* what one SDK request can do: answer with a text (possibly empty, possibly
\* none), or raise; "client_error" is an exception of the constructors that
\* run before the request in the same try block
RequestOutcomes ==
    { [kind |-> "ok", text |-> t] : t \in {None, Some(""), Some("Hello! How can I help?")} }
        \cup { [kind |-> "error", msg |-> x] : x \in ErrorMessages }

ClientOutcomes == { [kind |-> "client_error", msg |-> x] : x \in ClientErrorMessages }

\* len(s.split("."))
RECURSIVE CountParts(_)
CountParts(s) ==
    IF s = "" THEN 1
    ELSE (IF SubSeq(s, 1, 1) = "." THEN 1 ELSE 0) + CountParts(SubSeq(s, 2, Len(s)))

\* str(x) inside an f-string, for an Optional[str]
Str(o) == IF o = None THEN "None" ELSE o[1]

Hint404 ==
    <<"TROUBLESHOOTING 404 ERROR:",
      "1. Check if your Azure OpenAI service is in a supported region:",
      "   - East US, West US 2, North Europe, West Europe",
      "   - UK South, Australia East, Canada East",
      "2. Verify you're using the latest API version: 2025-05-01-Preview",
      "3. Make sure your model deployment supports the Responses API",
      "4. Check if your Azure OpenAI service was created recently">>

Hint401 ==
    <<"TROUBLESHOOTING 401 ERROR:",
      "1. Check your authentication credentials",
      "2. Verify you have the correct permissions">>

Hint400 ==
    <<"TROUBLESHOOTING 400 ERROR:",
      "1. Check your model deployment name",
      "2. Verify the model supports the Responses API">>

\* the same guidance with three independent ifs in place of if/elif/elif
TroubleshootingIfIfIf(msg) ==
    (IF Contains(msg, "404") THEN Hint404 ELSE <<>>)
        \o (IF Contains(msg, "401") THEN Hint401 ELSE <<>>)
        \o (IF Contains(msg, "400") THEN Hint400 ELSE <<>>)

\* test_responses_api_availability() lines 85-101: the guidance chosen from
\* the text of the exception
Troubleshooting(msg) ==
    IF Contains(msg, "404") THEN Hint404
    ELSE IF Contains(msg, "401") THEN Hint401
    ELSE IF Contains(msg, "400") THEN Hint400
    ELSE <<>>

\* check_azure_openai_service(): the value returned and the lines printed
CheckAzureOpenAIService(e) ==
    LET azure_openai_endpoint == Getenv(e, "AZURE_OPENAI_ENDPOINT")
        azure_openai_api_version ==
            GetenvDefault(e, "AZURE_OPENAI_API_VERSION", "2025-05-01-Preview")
        hdr == <<"DIAGNOSING AZURE OPENAI SERVICE">>
    IN  IF ~Truthy(azure_openai_endpoint)
        THEN [ret |-> FALSE,
              out |-> hdr \o <<"AZURE_OPENAI_ENDPOINT not found in .env file">>]
        ELSE LET o1 == hdr \o <<"Endpoint: " \o azure_openai_endpoint[1],
                                "API Version: " \o azure_openai_api_version>>
                 host == Remove(azure_openai_endpoint[1], "https://")
             IN  [ret |-> TRUE,
                  out |-> o1 \o
                    (IF Contains(azure_openai_endpoint[1], "openai.azure.com")
                     THEN IF CountParts(host) >= 2
                          THEN <<"Service Name: " \o SplitFirst(host, ".")>>
                          ELSE <<"Could not extract service name from endpoint">>
                     ELSE <<"Endpoint doesn't match expected Azure OpenAI format">>)]

RaInit ==
    /\ script = "check_responses_api"
    /\ pc = "load"
    /\ environ \in ResponsesEnvironments
    /\ fs \in [notebook : {TRUE}, sampleEnv : {None}, dotEnv : OpenAIDotEnvs]
    /\ loc = [success |-> None, error |-> None]

\* line 13: load_dotenv(override=True)
RaLoad ==
    /\ script = "check_responses_api" /\ pc = "load"
    /\ environ' = LoadDotenv(environ, fs.dotEnv, TRUE)
    /\ pc' = "check_service"
    /\ UNCHANGED <<script, fs, out, net, loc>>

\* main() lines 117-122: the banner and check_azure_openai_service(); the run
\* ends here without an endpoint
RaCheckService ==
    /\ script = "check_responses_api" /\ pc = "check_service"
    /\ LET r == CheckAzureOpenAIService(environ)
       IN  /\ out' = out \o <<"AZURE OPENAI RESPONSES API DIAGNOSTIC">> \o r.out
           /\ pc' = IF r.ret THEN "test_responses_api" ELSE "done"
    /\ UNCHANGED <<script, environ, fs, net, loc>>

\* the same step, left again at the call whenever the call failed
RaTestResponsesApiRetry ==
    /\ script = "check_responses_api" /\ pc = "test_responses_api"
    /\ \E o \in RequestOutcomes :
         /\ net' = Append(net, "responses.create")
         /\ IF o.kind = "ok"
            THEN /\ loc' = [loc EXCEPT !.success = Some(TRUE)]
                 /\ out' = out \o <<"SUCCESS! Responses API is available!">>
                 /\ pc' = "summary"
            ELSE /\ loc' = [loc EXCEPT !.error = Some(o.msg)]
                 /\ out' = out \o <<"Responses API failed: " \o o.msg>>
                 /\ pc' = "test_responses_api"
    /\ UNCHANGED <<script, environ, fs>>

\* main() line 125 and test_responses_api_availability(): the client is built
\* and responses.create is called once; a failure is printed with the guidance
\* for its text
RaTestResponsesApi ==
    /\ script = "check_responses_api" /\ pc = "test_responses_api"
    /\ \E o \in RequestOutcomes \cup ClientOutcomes :
         LET hdr == <<"TESTING RESPONSES API AVAILABILITY">>
             called == hdr \o
                 <<"Testing with model: " \o GetenvDefault(environ, "ANSWER_MODEL", "gpt-4o"),
                   "Testing with API version: " \o
                       GetenvDefault(environ, "AZURE_OPENAI_API_VERSION", "2025-05-01-Preview")>>
         IN  /\ net' = IF o.kind = "client_error" THEN net
                       ELSE Append(net, "responses.create")
             /\ IF o.kind = "ok"
                THEN /\ loc' = [loc EXCEPT !.success = Some(TRUE)]
                     /\ out' = out \o called \o
                               <<"SUCCESS! Responses API is available!",
                                 "Response: " \o Str(o.text)>>
                ELSE /\ loc' = [success |-> Some(FALSE), error |-> Some(o.msg)]
                     /\ out' = out \o (IF o.kind = "error" THEN called ELSE hdr)
                               \o <<"Responses API failed: " \o o.msg>>
                               \o Troubleshooting(o.msg)
    /\ pc' = "summary"
    /\ UNCHANGED <<script, environ, fs>>

\* the summary with the verdict of a success, whatever the probe returned
RaSummarySupports ==
    /\ script = "check_responses_api" /\ pc = "summary"
    /\ out' = out \o
         (IF loc.success # Some(TRUE) THEN <<"ALTERNATIVE SOLUTIONS">> ELSE <<>>) \o
         <<"SUMMARY:",
           "Your Azure OpenAI service supports the Responses API!",
           "You can use client.responses.create() in your notebook.">>
    /\ pc' = "done"
    /\ UNCHANGED <<script, environ, fs, net, loc>>

\* main() lines 127-139: the alternatives after a failure, and the summary
RaSummary ==
    /\ script = "check_responses_api" /\ pc = "summary"
    /\ out' = out \o
         (IF loc.success # Some(TRUE)
          THEN <<"ALTERNATIVE SOLUTIONS", "SUMMARY:",
                 "Responses API is not available in your current setup.",
                 "Consider using Chat Completions API as an alternative.">>
          ELSE <<"SUMMARY:",
                 "Your Azure OpenAI service supports the Responses API!",
                 "You can use client.responses.create() in your notebook.">>)
    /\ pc' = "done"
    /\ UNCHANGED <<script, environ, fs, net, loc>>

\* what client.chat.completions.create can do on top of RequestOutcomes: answer
\* with an empty list of choices, so that choices[0] raises IndexError
ChatOutcomes == RequestOutcomes \cup {[kind |-> "no_choices"]}

FrInit ==
    /\ script = "fix_responses_api"
    /\ pc = "load"
    /\ environ \in ResponsesEnvironments
    /\ fs \in [notebook : {TRUE}, sampleEnv : {None}, dotEnv : OpenAIDotEnvs]
    /\ loc = [responses_ok |-> None, chat_ok |-> None]

\* lines 15-31: load_dotenv(override=True), the configuration, the credential
\* and the client; os.environ[...] raises KeyError without the endpoint and a
\* constructor may raise, and nothing catches either
FrLoad ==
    /\ script = "fix_responses_api" /\ pc = "load"
    /\ LET e2 == LoadDotenv(environ, fs.dotEnv, TRUE)
       IN  /\ environ' = e2
           /\ IF "AZURE_OPENAI_ENDPOINT" \notin DOMAIN e2
              THEN pc' = "crashed"
              ELSE \E built \in BOOLEAN :
                       pc' = IF built THEN "try_responses_api" ELSE "crashed"
    /\ UNCHANGED <<script, fs, out, net, loc>>

\* the same step, with the Chat Completions call made after every outcome
FrTryResponsesApiThenChat ==
    /\ script = "fix_responses_api" /\ pc = "try_responses_api"
    /\ \E o \in RequestOutcomes :
         LET hdr == <<"Testing Azure OpenAI API endpoints...",
                      "Endpoint: " \o environ["AZURE_OPENAI_ENDPOINT"],
                      "API Version: " \o GetenvDefault(environ, "AZURE_OPENAI_API_VERSION",
                                                       "2025-03-01-preview"),
                      "Model: " \o GetenvDefault(environ, "ANSWER_MODEL", "gpt-4o"),
                      "Attempting to use Responses API...">>
         IN  /\ net' = Append(net, "responses.create")
             /\ loc' = [loc EXCEPT !.responses_ok = Some(o.kind = "ok")]
             /\ IF o.kind = "ok"
                THEN /\ out' = out \o hdr \o <<"Responses API worked!",
                                               "Response: " \o Str(o.text)>>
                     /\ pc' = "use_chat_completions_api"
                ELSE /\ out' = out \o hdr \o <<"Responses API failed: " \o o.msg,
                                               "Falling back to Chat Completions API...">>
                     /\ pc' = "use_chat_completions_api"
    /\ UNCHANGED <<script, environ, fs>>

\* main() lines 79-88 and try_responses_api(): the Responses API is called
\* once; main falls back to Chat Completions when it returned False
FrTryResponsesApi ==
    /\ script = "fix_responses_api" /\ pc = "try_responses_api"
    /\ \E o \in RequestOutcomes :
         LET hdr == <<"Testing Azure OpenAI API endpoints...",
                      "Endpoint: " \o environ["AZURE_OPENAI_ENDPOINT"],
                      "API Version: " \o GetenvDefault(environ, "AZURE_OPENAI_API_VERSION",
                                                       "2025-03-01-preview"),
                      "Model: " \o GetenvDefault(environ, "ANSWER_MODEL", "gpt-4o"),
                      "Attempting to use Responses API...">>
         IN  /\ net' = Append(net, "responses.create")
             /\ loc' = [loc EXCEPT !.responses_ok = Some(o.kind = "ok")]
             /\ IF o.kind = "ok"
                THEN /\ out' = out \o hdr \o <<"Responses API worked!",
                                               "Response: " \o Str(o.text)>>
                     /\ pc' = "recommend"
                ELSE /\ out' = out \o hdr \o <<"Responses API failed: " \o o.msg,
                                               "Falling back to Chat Completions API...">>
                     /\ pc' = "use_chat_completions_api"
    /\ UNCHANGED <<script, environ, fs>>

\* main() line 89 and use_chat_completions_api(): one call, its result printed
FrUseChatCompletionsApi ==
    /\ script = "fix_responses_api" /\ pc = "use_chat_completions_api"
    /\ \E o \in ChatOutcomes :
         /\ net' = Append(net, "chat.completions.create")
         /\ loc' = [loc EXCEPT !.chat_ok = Some(o.kind = "ok")]
         /\ out' = out \o <<"Using Chat Completions API...">> \o
              (CASE o.kind = "ok" -> <<"Chat Completions API worked!",
                                       "Response: " \o Str(o.text)>>
                 [] o.kind = "no_choices" ->
                        <<"Chat Completions API worked!",
                          "Chat Completions API failed: list index out of range">>
                 [] o.kind = "error" -> <<"Chat Completions API failed: " \o o.msg>>)
    /\ pc' = "recommend"
    /\ UNCHANGED <<script, environ, fs>>

\* main() lines 91-95: the recommendation
FrRecommend ==
    /\ script = "fix_responses_api" /\ pc = "recommend"
    /\ out' = out \o <<"RECOMMENDATION:",
                       "Use the Chat Completions API for maximum compatibility.">>
    /\ pc' = "done"
    /\ UNCHANGED <<script, environ, fs, net, loc>>

Min(a, b) == IF a <= b THEN a ELSE b

\* s[:100]
First100(s) == SubSeq(s, 1, Min(100, Len(s)))

FnInit ==
    /\ script = "fix_notebook"
    /\ pc = "load"
    /\ environ \in ResponsesEnvironments
    /\ fs \in [notebook : {TRUE}, sampleEnv : {None}, dotEnv : OpenAIDotEnvs]
    /\ loc = [responses_result |-> None, chat_result |-> None]

\* lines 34-50: as in fix_responses_api.py
FnLoad ==
    /\ script = "fix_notebook" /\ pc = "load"
    /\ LET e2 == LoadDotenv(environ, fs.dotEnv, TRUE)
       IN  /\ environ' = e2
           /\ IF "AZURE_OPENAI_ENDPOINT" \notin DOMAIN e2
              THEN pc' = "crashed"
              ELSE \E built \in BOOLEAN :
                       pc' = IF built THEN "test_responses_api" ELSE "crashed"
    /\ UNCHANGED <<script, fs, out, net, loc>>

\* main() lines 93-102 and test_responses_api(): one call; the text of the
\* answer is returned, None after an exception
FnTestResponsesApi ==
    /\ script = "fix_notebook" /\ pc = "test_responses_api"
    /\ \E o \in RequestOutcomes :
         LET hdr == <<"FIXING THE RESPONSES API 404 ERROR",
                      "Endpoint: " \o environ["AZURE_OPENAI_ENDPOINT"],
                      "API Version: " \o GetenvDefault(environ, "AZURE_OPENAI_API_VERSION",
                                                       "2025-05-01-Preview"),
                      "Model: " \o GetenvDefault(environ, "ANSWER_MODEL", "gpt-4o"),
                      "Testing Responses API...">>
         IN  /\ net' = Append(net, "responses.create")
             /\ IF o.kind = "ok"
                THEN /\ out' = out \o hdr \o <<"Responses API works!">>
                     /\ loc' = [loc EXCEPT !.responses_result = o.text]
                ELSE /\ out' = out \o hdr \o <<"Responses API failed: " \o o.msg>>
                     /\ loc' = [loc EXCEPT !.responses_result = None]
    /\ pc' = "test_chat_completions_api"
    /\ UNCHANGED <<script, environ, fs>>

\* main() line 104 and test_chat_completions_api(): one call, whatever the
\* Responses API did; the content of the first choice is returned, None after
\* an exception
FnTestChatCompletionsApi ==
    /\ script = "fix_notebook" /\ pc = "test_chat_completions_api"
    /\ \E o \in ChatOutcomes :
         /\ net' = Append(net, "chat.completions.create")
         /\ CASE o.kind = "ok" ->
                   /\ out' = out \o <<"Testing Chat Completions API...",
                                      "Chat Completions API works!">>
                   /\ loc' = [loc EXCEPT !.chat_result = o.text]
              [] o.kind = "no_choices" ->
                   /\ out' = out \o <<"Testing Chat Completions API...",
                                      "Chat Completions API works!",
                                      "Chat Completions API failed: list index out of range">>
                   /\ loc' = [loc EXCEPT !.chat_result = None]
              [] o.kind = "error" ->
                   /\ out' = out \o <<"Testing Chat Completions API...",
                                      "Chat Completions API failed: " \o o.msg>>
                   /\ loc' = [loc EXCEPT !.chat_result = None]
    /\ pc' = "solution"
    /\ UNCHANGED <<script, environ, fs>>

\* main() lines 106-130: the solution, chosen by the truth value of chat_result
FnSolution ==
    /\ script = "fix_notebook" /\ pc = "solution"
    /\ out' = out \o <<"SOLUTION:">> \o
         (IF Truthy(loc.chat_result)
          THEN <<"Use Chat Completions API - it works!",
                 "Sample response: " \o First100(loc.chat_result[1]) \o "...">>
          ELSE <<"Both APIs failed. Check your configuration.">>)
    /\ pc' = "done"
    /\ UNCHANGED <<script, environ, fs, net, loc>>

---------------------------------------------------------------------------
(* cmk-example: validate_key_vault_access.py and
   validate_search_service_access.py *)

\* the environments with each of the given keys either unset or set to the
\* value given for it
Settings(vals) == UNION { [ks -> {""}] : ks \in SUBSET DOMAIN vals }

Configured(vals) ==
    { [k \in DOMAIN e |-> vals[k]] : e \in Settings(vals) }

KvValues ==
    [k \in {"AZURE_KEY_VAULT_URI", "AZURE_KEY_VAULT_NAME", "AZURE_KEY_VAULT_VERSION"} |->
        CASE k = "AZURE_KEY_VAULT_URI" -> "https://contoso-kv.vault.azure.net"
          [] k = "AZURE_KEY_VAULT_NAME" -> "cmk-key"
          [] k = "AZURE_KEY_VAULT_VERSION" -> "3f1c"]

\* the 32 bytes the script wraps
Plaintext == "0123456789abcdef0123456789abcdef"

\* what a call of an Azure SDK client can do: succeed, raise HttpResponseError,
\* or raise another exception
SdkOutcomes == {"ok", "HttpResponseError", "Exception"}

\* the line the except clauses of the two scripts print for a failure
SdkFailure(o) == IF o = "HttpResponseError" THEN "HTTP error" ELSE "Error"

KvInit ==
    /\ script = "validate_key_vault_access"
    /\ pc = "load"
    /\ environ \in Configured(KvValues) \cup {[k \in {"AZURE_KEY_VAULT_VERSION"} |-> ""]}
    /\ fs \in [notebook : {TRUE}, sampleEnv : {None},
               dotEnv : {None, Some([k \in {"AZURE_KEY_VAULT_URI"} |-> KvValues[k]])}]
    /\ loc = [key |-> None, wrap_result |-> None, unwrap_result |-> None]

\* lines 10-21: load_dotenv(), the three values printed as read, and the
\* credential, whose constructor nothing guards
KvLoad ==
    /\ script = "validate_key_vault_access" /\ pc = "load"
    /\ LET e2 == LoadDotenv(environ, fs.dotEnv, FALSE)
       IN  /\ environ' = e2
           /\ out' = out \o
                <<"KEY_VAULT_URI: " \o Str(Getenv(e2, "AZURE_KEY_VAULT_URI")),
                  "KEY_NAME: " \o Str(Getenv(e2, "AZURE_KEY_VAULT_NAME")),
                  "KEY_VERSION: " \o Str(Getenv(e2, "AZURE_KEY_VAULT_VERSION"))>>
    /\ \E built \in BOOLEAN : pc' = IF built THEN "get_key" ELSE "crashed"
    /\ UNCHANGED <<script, fs, net, loc>>

\* lines 23-31 and 49-52: the key client and get_key; without a vault URI the
\* KeyClient constructor raises before any request, and without a key name no
\* key comes back
KvGetKey ==
    /\ script = "validate_key_vault_access" /\ pc = "get_key"
    /\ LET KEY_VAULT_URI == Getenv(environ, "AZURE_KEY_VAULT_URI")
           KEY_NAME == Getenv(environ, "AZURE_KEY_VAULT_NAME")
           KEY_VERSION == Getenv(environ, "AZURE_KEY_VAULT_VERSION")
       IN  IF ~Truthy(KEY_VAULT_URI)
           THEN /\ out' = out \o <<"Error">>
                /\ pc' = "done"
                /\ UNCHANGED <<net, loc>>
           ELSE \E o \in SdkOutcomes :
                  /\ o = "ok" => Truthy(KEY_NAME)
                  /\ net' = Append(net, "get_key")
                  /\ IF o = "ok"
                     THEN /\ loc' = [loc EXCEPT !.key = KEY_NAME]
                          /\ out' = out \o
                               (IF Truthy(KEY_VERSION)
                                THEN <<"Key '" \o KEY_NAME[1] \o "' (version: "
                                       \o KEY_VERSION[1] \o ") retrieved successfully.">>
                                ELSE <<"Key '" \o KEY_NAME[1]
                                       \o "' (latest version) retrieved successfully.">>)
                          /\ pc' = "wrap_key"
                     ELSE /\ loc' = loc
                          /\ out' = out \o <<SdkFailure(o)>>
                          /\ pc' = "done"
    /\ UNCHANGED <<script, environ, fs>>

\* lines 33-39: the cryptography client and wrap_key on the plaintext
KvWrapKey ==
    /\ script = "validate_key_vault_access" /\ pc = "wrap_key"
    /\ \E o \in SdkOutcomes :
         /\ net' = Append(net, "wrap_key")
         /\ IF o = "ok"
            THEN /\ loc' = [loc EXCEPT !.wrap_result = Some("wrapped:" \o Plaintext)]
                 /\ out' = out \o <<"Wrap operation succeeded.">>
                 /\ pc' = "unwrap_key"
            ELSE /\ loc' = loc
                 /\ out' = out \o <<SdkFailure(o)>>
                 /\ pc' = "done"
    /\ UNCHANGED <<script, environ, fs>>

\* the same step without the comparison of line 44
KvUnwrapKeyUncompared ==
    /\ script = "validate_key_vault_access" /\ pc = "unwrap_key"
    /\ \E o \in SdkOutcomes, key \in {Plaintext, "fedcba9876543210fedcba9876543210"} :
         /\ net' = Append(net, "unwrap_key")
         /\ IF o = "ok"
            THEN /\ loc' = [loc EXCEPT !.unwrap_result = Some(key)]
                 /\ out' = out \o <<"Unwrap operation succeeded.",
                      "Validation successful: Access and cryptographic permissions are correct!">>
            ELSE /\ loc' = loc
                 /\ out' = out \o <<SdkFailure(o)>>
    /\ pc' = "done"
    /\ UNCHANGED <<script, environ, fs>>

\* lines 41-52: unwrap_key on the wrapped key, and the comparison of what
\* comes back with the plaintext
KvUnwrapKey ==
    /\ script = "validate_key_vault_access" /\ pc = "unwrap_key"
    /\ \E o \in SdkOutcomes, key \in {Plaintext, "fedcba9876543210fedcba9876543210"} :
         /\ net' = Append(net, "unwrap_key")
         /\ IF o = "ok"
            THEN /\ loc' = [loc EXCEPT !.unwrap_result = Some(key)]
                 /\ out' = out \o <<"Unwrap operation succeeded.">> \o
                      (IF key = Plaintext
                       THEN <<"Validation successful: Access and cryptographic permissions are correct!">>
                       ELSE <<"Validation failed: Unwrapped key does not match original.">>)
            ELSE /\ loc' = loc
                 /\ out' = out \o <<SdkFailure(o)>>
    /\ pc' = "done"
    /\ UNCHANGED <<script, environ, fs>>

SsValues ==
    [k \in {"AZURE_SEARCH_SERVICE", "AZURE_SEARCH_INDEX_NAME"} |->
        IF k = "AZURE_SEARCH_SERVICE" THEN "https://contoso.search.windows.net"
                                      ELSE "hotels-index"]

SsInit ==
    /\ script = "validate_search_service_access"
    /\ pc = "load"
    /\ environ \in Configured(SsValues) \cup {[k \in {"AZURE_SEARCH_SERVICE"} |-> ""]}
    /\ fs \in [notebook : {TRUE}, sampleEnv : {None},
               dotEnv : {None, Some([k \in {"AZURE_SEARCH_INDEX_NAME"} |-> SsValues[k]])}]
    /\ loc = [indexes |-> None]

\* lines 9-21: load_dotenv(), the two values printed as read, sys.exit(1)
\* without the endpoint, and the credential
SsLoad ==
    /\ script = "validate_search_service_access" /\ pc = "load"
    /\ LET e2 == LoadDotenv(environ, fs.dotEnv, FALSE)
           SEARCH_SERVICE_ENDPOINT == Getenv(e2, "AZURE_SEARCH_SERVICE")
           hdr == <<"SEARCH_SERVICE_ENDPOINT: " \o Str(SEARCH_SERVICE_ENDPOINT),
                    "SEARCH_INDEX_NAME: " \o Str(Getenv(e2, "AZURE_SEARCH_INDEX_NAME"))>>
       IN  /\ environ' = e2
           /\ IF ~Truthy(SEARCH_SERVICE_ENDPOINT)
              THEN /\ out' = out \o hdr \o
                        <<"ERROR: AZURE_SEARCH_SERVICE_ENDPOINT is not set in the .env file.">>
                   /\ pc' = "exit1"
              ELSE /\ out' = out \o hdr
                   /\ \E built \in BOOLEAN :
                        pc' = IF built THEN "list_indexes" ELSE "crashed"
    /\ UNCHANGED <<script, fs, net, loc>>

\* lines 23-35 and 41-46: the index client and list_indexes; without an index
\* name the run ends with the success line
SsListIndexes ==
    /\ script = "validate_search_service_access" /\ pc = "list_indexes"
    /\ \/ /\ out' = out \o <<"Error">>
          /\ pc' = "done"
          /\ UNCHANGED <<net, loc>>
       \/ \E o \in SdkOutcomes :
            /\ net' = Append(net, "list_indexes")
            /\ IF o # "ok"
               THEN /\ out' = out \o <<"Connected to Azure AI Search service.", SdkFailure(o)>>
                    /\ pc' = "done"
                    /\ loc' = loc
               ELSE /\ loc' = [loc EXCEPT !.indexes = Some("listed")]
                    /\ IF Truthy(Getenv(environ, "AZURE_SEARCH_INDEX_NAME"))
                       THEN /\ out' = out \o <<"Connected to Azure AI Search service.",
                                                "Found indexes">>
                            /\ pc' = "get_index"
                       ELSE /\ out' = out \o
                                 <<"Connected to Azure AI Search service.", "Found indexes",
                                   "No index name specified in .env (AZURE_SEARCH_INDEX_NAME). Skipping index retrieval.",
                                   "Validation successful: Access to Azure AI Search service is working!">>
                            /\ pc' = "done"
    /\ UNCHANGED <<script, environ, fs>>

\* lines 37-46: get_index for the index named, then the success line
SsGetIndex ==
    /\ script = "validate_search_service_access" /\ pc = "get_index"
    /\ \E o \in SdkOutcomes :
         /\ net' = Append(net, "get_index")
         /\ out' = out \o
              (IF o = "ok"
               THEN <<"Index '" \o environ["AZURE_SEARCH_INDEX_NAME"] \o "' retrieved successfully.",
                      "Validation successful: Access to Azure AI Search service is working!">>
               ELSE <<SdkFailure(o)>>)
    /\ pc' = "done"
    /\ UNCHANGED <<script, environ, fs, loc>>

---------------------------------------------------------------------------
(* Quickstart-Document-Permissions-Push-API: test_default_credential.py and
   msgraph_sample.py *)

NoFiles == [notebook |-> TRUE, sampleEnv |-> None, dotEnv |-> None]

TcInit ==
    /\ script = "test_default_credential"
    /\ pc = "get_token"
    /\ environ = <<>>
    /\ fs = NoFiles
    /\ loc = [token |-> None]

\* lines 8-15: the credential and one get_token for Microsoft Graph
TcGetToken ==
    /\ script = "test_default_credential" /\ pc = "get_token"
    /\ \/ /\ out' = out \o <<"Failed to obtain token with DefaultAzureCredential.", "Error">>
          /\ UNCHANGED <<net, loc>>
       \/ \E ok \in BOOLEAN :
            /\ net' = Append(net, "get_token(graph)")
            /\ IF ok
               THEN /\ loc' = [loc EXCEPT !.token = Some("eyJ0")]
                    /\ out' = out \o <<"Successfully obtained token!",
                                        "Token: eyJ0... (truncated)">>
               ELSE /\ loc' = loc
                    /\ out' = out \o <<"Failed to obtain token with DefaultAzureCredential.",
                                        "Error">>
    /\ pc' = "done"
    /\ UNCHANGED <<script, environ, fs>>

MgInit ==
    /\ script = "msgraph_sample"
    /\ pc = "load"
    /\ environ = <<>>
    /\ fs = NoFiles
    /\ loc = [me |-> None, inflight |-> {}]

\* lines 7-16: load_dotenv(), the credential and the Graph client
MgLoad ==
    /\ script = "msgraph_sample" /\ pc = "load"
    /\ \E built \in BOOLEAN : pc' = IF built THEN "me" ELSE "crashed"
    /\ UNCHANGED <<script, environ, fs, out, net, loc>>

\* both requests sent together, as asyncio.gather would send them
MgRequestBoth ==
    /\ script = "msgraph_sample" /\ pc = "me"
    /\ net' = net \o <<"me.get", "me.member_of.get">>
    /\ loc' = [loc EXCEPT !.inflight = @ \cup {"me.get", "me.member_of.get"}]
    /\ pc' = "await_me"
    /\ UNCHANGED <<script, environ, fs, out>>

\* line 20: client.me.get() is sent and main waits for it
MgRequestMe ==
    /\ script = "msgraph_sample" /\ pc = "me"
    /\ net' = Append(net, "me.get")
    /\ loc' = [loc EXCEPT !.inflight = @ \cup {"me.get"}]
    /\ pc' = "await_me"
    /\ UNCHANGED <<script, environ, fs, out>>

\* lines 20-24 and 35-39: the profile arrives and is printed; an exception, or
\* no profile, ends main, and the handler around asyncio.run prints it
MgAwaitMe ==
    /\ script = "msgraph_sample" /\ pc = "await_me"
    /\ \E o \in {"user", "none", "error"} :
         /\ loc' = [me |-> IF o = "user" THEN Some("user") ELSE None,
                    inflight |-> loc.inflight \ {"me.get"}]
         /\ IF o = "user"
            THEN /\ out' = out \o <<"User profile:", "Display Name", "User Principal Name", "ID">>
                 /\ pc' = "member_of"
            ELSE /\ out' = out \o (IF o = "none" THEN <<"User profile:">> ELSE <<>>)
                                \o <<"An error occurred">>
                 /\ pc' = "done"
    /\ UNCHANGED <<script, environ, fs, net>>

\* lines 27-28: client.me.member_of.get() is sent and main waits for it
MgRequestMemberOf ==
    /\ script = "msgraph_sample" /\ pc = "member_of"
    /\ out' = out \o <<"Group memberships:">>
    /\ net' = Append(net, "me.member_of.get")
    /\ loc' = [loc EXCEPT !.inflight = @ \cup {"me.member_of.get"}]
    /\ pc' = "await_member_of"
    /\ UNCHANGED <<script, environ, fs>>

\* lines 28-39: the memberships arrive and are printed
MgAwaitMemberOf ==
    /\ script = "msgraph_sample" /\ pc = "await_member_of"
    /\ \E o \in {"groups", "none", "no_value", "error"} :
         out' = out \o
              (CASE o = "groups" -> <<"Group ID">>
                 [] o = "none" -> <<"No group memberships found.">>
                 [] o = "no_value" -> <<"An error occurred">>
                 [] o = "error" -> <<"An error occurred">>)
    /\ loc' = [loc EXCEPT !.inflight = @ \ {"me.member_of.get"}]
    /\ pc' = "done"
    /\ UNCHANGED <<script, environ, fs, net>>

---------------------------------------------------------------------------
(* Quickstart-Document-Permissions-Pull-API: check_adls_permissions.py and
   verify_storage_permissions.py *)

\* the first n elements of a sequence
Take(seq, n) == SubSeq(seq, 1, n)

AdValues ==
    [k \in {"AZURE_SEARCH_ENDPOINT", "AZURE_STORAGE_CONNECTION_STRING",
            "AZURE_STORAGE_RESOURCE_ID", "AZURE_STORAGE_CONTAINER_NAME"} |->
        CASE k = "AZURE_SEARCH_ENDPOINT" -> "https://contoso.search.windows.net"
          [] k = "AZURE_STORAGE_CONNECTION_STRING" -> "AccountName=contoso"
          [] k = "AZURE_STORAGE_RESOURCE_ID" -> "/subscriptions/0/storageAccounts/contoso"
          [] k = "AZURE_STORAGE_CONTAINER_NAME" -> "parks"]

\* the keys line 11, 12 and 15 read with os.environ[...], in that order
AdRequired ==
    <<"AZURE_SEARCH_ENDPOINT", "AZURE_STORAGE_CONNECTION_STRING", "AZURE_STORAGE_RESOURCE_ID">>

\* the group IDs Microsoft Graph answers with, in its order
GroupIds == <<"5a1e", "7c2f", "9d3b">>

\* the same calls with the ACL update made as soon as the directory is there
SubDirectoryCallsAclFirst(state, file, group_id) ==
    <<"state-parks.create_sub_directory(" \o state \o ")",
      state \o ".create_directory",
      state \o ".update_access_control_recursive(group:" \o group_id \o ":rwx)",
      state \o ".create_file(" \o file \o ")",
      "requests.get(" \o file \o ")",
      file \o ".upload_data">>

\* the calls of step 7 and of step 8, in program order, for a state and the
\* group its directory is granted to
SubDirectoryCalls(state, file, group_id) ==
    <<"state-parks.create_sub_directory(" \o state \o ")",
      state \o ".create_directory",
      state \o ".create_file(" \o file \o ")",
      "requests.get(" \o file \o ")",
      file \o ".upload_data",
      state \o ".update_access_control_recursive(group:" \o group_id \o ":rwx)">>

\* the paths of the container the script touches
Paths == {"/", "state-parks", "state-parks/oregon", "state-parks/washington"}

\* the directories that may be in the container before the run: a
\* sub-directory only inside 'state-parks'
Directories ==
    { d \in SUBSET (Paths \ {"/"}) : d # {} => "state-parks" \in d }

\* the grants after a recursive update for the groups on the path: the path
\* and every directory that exists under it
Granted(acl, exists, path, groups) ==
    [p \in Paths |->
        IF p = path \/ (path = "/" /\ p \in exists) THEN acl[p] \cup groups ELSE acl[p]]

\* the group IDs among ids whose call is one of the first n
GroupsOf(ids, n) == { ids[i] : i \in 1..n }

\* the container after the first n calls of step 7 or step 8 succeeded: the
\* first creates the sub-directory, inside 'state-parks', and the sixth grants
\* it to the group
SubDirectoryMade(l, path, group_id, n) ==
    [l EXCEPT !.exists = IF n >= 1 THEN @ \cup {"state-parks", path} ELSE @,
              !.acl = IF n >= 6 THEN Granted(@, l.exists, path, {group_id}) ELSE @]

AdInit ==
    /\ script = "check_adls_permissions"
    /\ pc = "step1"
    /\ environ \in Configured(AdValues)
    /\ fs \in [notebook : {TRUE}, sampleEnv : {None},
               dotEnv : {None, Some([k \in {"AZURE_SEARCH_ENDPOINT"} |-> AdValues[k]])}]
    /\ \E d \in Directories :
         loc = [first_group_id |-> None, second_group_id |-> None, container |-> None,
                existed |-> d, exists |-> d, acl |-> [p \in Paths |-> {}]]

\* lines 8-22: load_dotenv(override=True) and the three required keys; the
\* first one missing ends the run with exit status 1
AdStep1 ==
    /\ script = "check_adls_permissions" /\ pc = "step1"
    /\ LET e2 == LoadDotenv(environ, fs.dotEnv, TRUE)
           missing == { i \in 1..Len(AdRequired) : AdRequired[i] \notin DOMAIN e2 }
           hdr == <<"--- Step 1: Load environment variables ---">>
       IN  /\ environ' = e2
           /\ IF missing # {}
              THEN /\ LET i == CHOOSE i \in missing : \A j \in missing : i <= j
                      IN  out' = out \o hdr \o
                            <<"Failed to load environment variables: '" \o AdRequired[i] \o "'">>
                   /\ pc' = "exit1"
              ELSE /\ out' = out \o hdr \o
                        <<"Environment variables loaded successfully.",
                          "  endpoint: " \o e2["AZURE_SEARCH_ENDPOINT"],
                          "  adls_gen2_account_name: " \o Str(Getenv(e2, "AZURE_STORAGE_ACCOUNT_NAME")),
                          "  adls_gen2_container_name: " \o Str(Getenv(e2, "AZURE_STORAGE_CONTAINER_NAME"))>>
                   /\ pc' = "step2"
    /\ UNCHANGED <<script, fs, net, loc>>

\* lines 24-31: the credential and the token provider, which the script never
\* calls; a failure ends the run with exit status 1
AdStep2 ==
    /\ script = "check_adls_permissions" /\ pc = "step2"
    /\ \E ok \in BOOLEAN :
         /\ out' = out \o <<"--- Step 2: Authenticate with Azure ---">> \o
              (IF ok THEN <<"Azure authentication successful.">>
                     ELSE <<"Azure authentication failed">>)
         /\ pc' = IF ok THEN "step3" ELSE "exit1"
    /\ UNCHANGED <<script, environ, fs, net, loc>>

\* lines 33-45: a Graph token, the memberOf request and the first two groups
\* of the answer; any failure, fewer than two groups included, ends the run
\* with exit status 1
AdStep3 ==
    /\ script = "check_adls_permissions" /\ pc = "step3"
    /\ \E o \in {"token_error", "request_error", "no_value", "groups"},
          n \in 0..Len(GroupIds) :
         LET hdr == <<"--- Step 3: Retrieve group IDs from Microsoft Graph ---">>
             calls == <<"get_token(graph)", "requests.get(me/memberOf)">>
         IN  /\ o # "groups" => n = 0
             /\ net' = net \o (IF o = "token_error" THEN Take(calls, 1) ELSE calls)
             /\ IF o = "groups" /\ n >= 2
                THEN /\ loc' = [loc EXCEPT !.first_group_id = Some(GroupIds[1]),
                                           !.second_group_id = Some(GroupIds[2])]
                     /\ out' = out \o hdr \o <<"First group ID: " \o GroupIds[1],
                                                "Second group ID: " \o GroupIds[2]>>
                     /\ pc' = "step4"
                ELSE /\ loc' = loc
                     /\ out' = out \o hdr \o <<"Failed to retrieve group IDs">>
                     /\ pc' = "exit1"
    /\ UNCHANGED <<script, environ, fs>>

\* lines 47-58: the service and container clients, container.exists() and,
\* for a container that does not exist, create_file_system(); any failure ends
\* the run with exit status 1
AdStep4 ==
    /\ script = "check_adls_permissions" /\ pc = "step4"
    /\ \E o \in {"client_error", "exists_error", "exists", "created", "create_error"} :
         LET hdr == <<"--- Step 4: Connect to ADLS Gen2 and create container if needed ---">>
             calls == <<"container.exists", "container.create_file_system">>
         IN  /\ o # "client_error" => Truthy(Getenv(environ, "AZURE_STORAGE_CONTAINER_NAME"))
             /\ o \in {"created", "create_error"} => loc.existed = {}
             /\ net' = net \o (CASE o = "client_error" -> <<>>
                                 [] o \in {"exists_error", "exists"} -> Take(calls, 1)
                                 [] OTHER -> calls)
             /\ IF o \in {"exists", "created"}
                THEN /\ loc' = [loc EXCEPT !.container = Some(o)]
                     /\ out' = out \o hdr \o
                          (IF o = "created" THEN <<"Container created.">>
                                            ELSE <<"Container exists.">>)
                     /\ pc' = "step5"
                ELSE /\ loc' = loc
                     /\ out' = out \o hdr \o <<"Failed to connect to or create container">>
                     /\ pc' = "exit1"
    /\ UNCHANGED <<script, environ, fs>>

\* lines 60-66: create_directory() on 'state-parks'; a failure is printed and
\* the run goes on
AdStep5 ==
    /\ script = "check_adls_permissions" /\ pc = "step5"
    /\ net' = Append(net, "state-parks.create_directory")
    /\ \E ok \in BOOLEAN :
         /\ out' = out \o <<"--- Step 5: Create 'state-parks' directory ---">> \o
              (IF ok THEN <<"'state-parks' directory created.">>
                     ELSE <<"Failed to create 'state-parks' directory">>)
         /\ loc' = IF ok THEN [loc EXCEPT !.exists = @ \cup {"state-parks"}] ELSE loc
    /\ pc' = "step6"
    /\ UNCHANGED <<script, environ, fs>>

\* lines 68-76: the recursive ACL update on the root, for the first group and
\* then for the second; the first failure is printed and the run goes on
AdStep6 ==
    /\ script = "check_adls_permissions" /\ pc = "step6"
    /\ LET first_group_id == loc.first_group_id[1]
           second_group_id == loc.second_group_id[1]
           calls == <<"root.update_access_control_recursive(group:" \o first_group_id \o ":rwx)",
                      "root.update_access_control_recursive(group:" \o second_group_id \o ":rwx)">>
           done == <<"Root ACL set for first group: " \o first_group_id,
                     "Root ACL set for second group: " \o second_group_id>>
       IN  \E n \in 1..Len(calls), ok \in BOOLEAN :
             /\ ok => n = Len(calls)
             /\ net' = net \o Take(calls, n)
             /\ out' = out \o <<"--- Step 6: Set ACLs on root directory ---">> \o
                  (IF ok THEN done ELSE Take(done, n - 1) \o <<"Failed to set root ACLs">>)
             /\ loc' = [loc EXCEPT !.acl =
                           Granted(@, loc.exists, "/",
                                   GroupsOf(<<first_group_id, second_group_id>>,
                                            IF ok THEN n ELSE n - 1))]
    /\ pc' = "step7"
    /\ UNCHANGED <<script, environ, fs>>

\* lines 78-88: the 'oregon' sub-directory, its file, the download, the upload
\* and the ACL for the first group; the first failure is printed and the run
\* goes on
AdStep7 ==
    /\ script = "check_adls_permissions" /\ pc = "step7"
    /\ LET calls == SubDirectoryCalls("oregon", "oregon_state_parks.csv", loc.first_group_id[1])
       IN  \E n \in 1..Len(calls), ok \in BOOLEAN :
             /\ ok => n = Len(calls)
             /\ net' = net \o Take(calls, n)
             /\ out' = out \o <<"--- Step 7: Create and upload to 'oregon' subdirectory ---">> \o
                  (IF ok THEN <<"'oregon' subdirectory and file created, ACL set.">>
                         ELSE <<"Failed with 'oregon' subdirectory or file">>)
             /\ loc' = SubDirectoryMade(loc, "state-parks/oregon", loc.first_group_id[1],
                                        IF ok THEN n ELSE n - 1)
    /\ pc' = "step8"
    /\ UNCHANGED <<script, environ, fs>>

\* lines 90-100: the same for 'washington' and the second group
AdStep8 ==
    /\ script = "check_adls_permissions" /\ pc = "step8"
    /\ LET calls == SubDirectoryCalls("washington", "washington_state_parks.csv",
                                      loc.second_group_id[1])
       IN  \E n \in 1..Len(calls), ok \in BOOLEAN :
             /\ ok => n = Len(calls)
             /\ net' = net \o Take(calls, n)
             /\ out' = out \o <<"--- Step 8: Create and upload to 'washington' subdirectory ---">> \o
                  (IF ok THEN <<"'washington' subdirectory and file created, ACL set.">>
                         ELSE <<"Failed with 'washington' subdirectory or file">>)
             /\ loc' = SubDirectoryMade(loc, "state-parks/washington", loc.second_group_id[1],
                                        IF ok THEN n ELSE n - 1)
    /\ pc' = "done"
    /\ UNCHANGED <<script, environ, fs>>

VsValues ==
    [k \in {"AZURE_STORAGE_CONNECTION_STRING", "AZURE_STORAGE_CONTAINER_NAME", "PATH"} |->
        CASE k = "AZURE_STORAGE_CONNECTION_STRING" -> "AccountName=contoso"
          [] k = "AZURE_STORAGE_CONTAINER_NAME" -> "parks"
          [] k = "PATH" -> "/usr/bin"]

VsInit ==
    /\ script = "verify_storage_permissions"
    /\ pc = "load"
    /\ environ \in Configured(VsValues)
    /\ fs \in [notebook : {TRUE}, sampleEnv : {None},
               dotEnv : {None, Some([k \in {"AZURE_STORAGE_CONNECTION_STRING"} |-> VsValues[k]])}]
    /\ loc = [claims |-> None, container |-> None]

\* lines 8-15: load_dotenv(override=True), then the connection string, the
\* container name and PATH printed; os.environ[...] on a key that is not set
\* raises, and nothing catches it
VsLoad ==
    /\ script = "verify_storage_permissions" /\ pc = "load"
    /\ LET e2 == LoadDotenv(environ, fs.dotEnv, TRUE)
       IN  /\ environ' = e2
           /\ IF "AZURE_STORAGE_CONNECTION_STRING" \notin DOMAIN e2
              THEN /\ out' = out
                   /\ pc' = "crashed"
              ELSE LET printed == <<e2["AZURE_STORAGE_CONNECTION_STRING"],
                                    Str(Getenv(e2, "AZURE_STORAGE_CONTAINER_NAME"))>>
                   IN  IF "PATH" \notin DOMAIN e2
                       THEN /\ out' = out \o printed
                            /\ pc' = "crashed"
                       ELSE /\ out' = out \o printed \o <<"PATH: " \o e2["PATH"]>>
                            /\ pc' = "az"
    /\ UNCHANGED <<script, fs, net, loc>>

\* lines 17-26: 'az account show' as a subprocess
VsAz ==
    /\ script = "verify_storage_permissions" /\ pc = "az"
    /\ \E o \in {"returncode 0", "returncode 1", "raise"} :
         /\ net' = IF o = "raise" THEN net ELSE Append(net, "az account show")
         /\ out' = out \o
              (CASE o = "returncode 0" -> <<"Azure CLI authenticated user">>
                 [] o = "returncode 1" -> <<"Could not determine Azure CLI user. Not authenticated via Azure CLI or az not installed.">>
                 [] o = "raise" -> <<"Error checking Azure CLI user">>)
    /\ pc' = "az.cmd"
    /\ UNCHANGED <<script, environ, fs, loc>>

\* lines 28-39: the same query through az.cmd at its installation path
VsAzCmd ==
    /\ script = "verify_storage_permissions" /\ pc = "az.cmd"
    /\ \E o \in {"returncode 0", "returncode 1", "raise"} :
         /\ net' = IF o = "raise" THEN net ELSE Append(net, "az.cmd account show")
         /\ out' = out \o <<"--- Attempting to get Azure CLI user via az.cmd ---">> \o
              (CASE o = "returncode 0" -> <<"Azure CLI authenticated user (via az.cmd)">>
                 [] o = "returncode 1" -> <<"Could not determine Azure CLI user via az.cmd. Return code: 1",
                                            "stderr">>
                 [] o = "raise" -> <<"Error checking Azure CLI user via az.cmd">>)
    /\ pc' = "token"
    /\ UNCHANGED <<script, environ, fs, loc>>

\* lines 41-56: a storage token from a credential of its own, and the claims
\* of its payload
VsDecodeToken ==
    /\ script = "verify_storage_permissions" /\ pc = "token"
    /\ \E o \in {"credential_error", "token_error", "malformed", "claims"} :
         /\ net' = IF o = "credential_error" THEN net ELSE Append(net, "get_token(storage)")
         /\ loc' = [loc EXCEPT !.claims = IF o = "claims" THEN Some("oid") ELSE None]
         /\ out' = out \o <<"--- Decoding Azure access token to show identity info ---">> \o
              (IF o = "claims" THEN <<"Token claims:", "  oid">>
                               ELSE <<"Error decoding access token">>)
    /\ pc' = "container"
    /\ UNCHANGED <<script, environ, fs>>

\* lines 58-67: the credential, the service and container clients,
\* container.exists() and create_file_system(); nothing catches a failure
VsContainer ==
    /\ script = "verify_storage_permissions" /\ pc = "container"
    /\ \E o \in {"client_error", "exists_error", "exists", "created", "create_error"} :
         LET calls == <<"container.exists", "container.create_file_system">>
         IN  /\ o # "client_error" => Truthy(Getenv(environ, "AZURE_STORAGE_CONTAINER_NAME"))
             /\ net' = net \o (CASE o = "client_error" -> <<>>
                                 [] o \in {"exists_error", "exists"} -> Take(calls, 1)
                                 [] OTHER -> calls)
             /\ out' = out \o
                  (CASE o = "exists" -> <<"Container exists.">>
                     [] o \in {"created", "create_error"} ->
                            <<"Container does not exist. Creating container...">>
                     [] OTHER -> <<>>)
             /\ loc' = [loc EXCEPT !.container =
                            IF o \in {"exists", "created"} THEN Some(o) ELSE None]
             /\ pc' = IF o \in {"exists", "created"} THEN "test_directory" ELSE "crashed"
    /\ UNCHANGED <<script, environ, fs>>

\* lines 69-76: create_directory() on 'test-directory'
VsTestDirectory ==
    /\ script = "verify_storage_permissions" /\ pc = "test_directory"
    /\ net' = Append(net, "test-directory.create_directory")
    /\ \E ok \in BOOLEAN :
         out' = out \o (IF ok THEN <<"Directory 'test-directory' created successfully.">>
                              ELSE <<"Failed to create directory">>)
    /\ pc' = "done"
    /\ UNCHANGED <<script, environ, fs, loc>>

---------------------------------------------------------------------------

Init ==
    /\ out = <<>>
    /\ net = <<>>
    /\ \/ SetupInit
       \/ VcInit
       \/ CrInit
       \/ AzInit
       \/ RaInit
       \/ FrInit
       \/ FnInit
       \/ KvInit
       \/ SsInit
       \/ TcInit
       \/ MgInit
       \/ AdInit
       \/ VsInit

Next ==
    \/ SetupCheckDirectory
    \/ SetupCreateEnv
    \/ SetupCheckEnv
    \/ VcLoad
    \/ VcListIndexes
    \/ CrLoad
    \/ CrCheckServiceRegion
    \/ CrShowSupportedRegions
    \/ AzLoad
    \/ AzCheckWithCli
    \/ AzReport
    \/ RaLoad
    \/ RaCheckService
    \/ RaTestResponsesApi
    \/ RaSummary
    \/ FrLoad
    \/ FrTryResponsesApi
    \/ FrUseChatCompletionsApi
    \/ FrRecommend
    \/ FnLoad
    \/ FnTestResponsesApi
    \/ FnTestChatCompletionsApi
    \/ FnSolution
    \/ KvLoad
    \/ KvGetKey
    \/ KvWrapKey
    \/ KvUnwrapKey
    \/ SsLoad
    \/ SsListIndexes
    \/ SsGetIndex
    \/ TcGetToken
    \/ MgLoad
    \/ MgRequestMe
    \/ MgAwaitMe
    \/ MgRequestMemberOf
    \/ MgAwaitMemberOf
    \/ AdStep1
    \/ AdStep2
    \/ AdStep3
    \/ AdStep4
    \/ AdStep5
    \/ AdStep6
    \/ AdStep7
    \/ AdStep8
    \/ VsLoad
    \/ VsAz
    \/ VsAzCmd
    \/ VsDecodeToken
    \/ VsContainer
    \/ VsTestDirectory

Spec == Init /\ [][Next]_vars

---------------------------------------------------------------------------
(* The claims about the Quickstart configuration checks *)

\* the placeholder sample.env documents for a key
PlaceholderOf(k) ==
    IF k = "SEARCH-ENDPOINT" THEN EndpointPlaceholder ELSE ApiKeyPlaceholder

\* os.getenv(k) is None, empty, or still the placeholder
Unconfigured(k) ==
    LET v == Getenv(environ, k)
    IN  v = None \/ v = Some("") \/ v = Some(PlaceholderOf(k))

\* e occurs among the printed lines / the calls
Printed(line) == \E i \in 1..Len(out) : out[i] = line

Called(op) == \E i \in 1..Len(net) : net[i] = op

SetupChecked == script = "setup_environment" /\ loc.ret # None

\* C1: once check_env_file has returned in a run of setup_environment.py, it
\* returned False if SEARCH-ENDPOINT or SEARCH-API-KEY is absent, empty or equal
\* to its placeholder, and True for every other combination of values.
C1_LoaderVerdict ==
    SetupChecked =>
        (loc.ret = Some(TRUE) <=> \A k \in QuickKeys : ~Unconfigured(k))

\* C1 witness: check_env_file has rejected a configuration whose endpoint is
\* still the placeholder while the API key is a real one.
C1_Witness ==
    /\ SetupChecked
    /\ loc.ret = Some(FALSE)
    /\ Getenv(environ, "SEARCH-ENDPOINT") = Some(EndpointPlaceholder)
    /\ Getenv(environ, "SEARCH-API-KEY") = Some("s3cr3tK3y")

KeyReported ==
    \/ Printed("SEARCH-API-KEY still has the placeholder value")
    \/ Printed("SEARCH-API-KEY is not set")

EndpointReported ==
    \/ Printed("SEARCH-ENDPOINT still has the placeholder value")
    \/ Printed("SEARCH-ENDPOINT is not set")

KeyIsPlaceholder == Getenv(environ, "SEARCH-API-KEY") = Some(ApiKeyPlaceholder)

\* C2 (as stated): whenever check_env_file has run on a configuration whose
\* SEARCH-API-KEY is your-admin-api-key-here, it has reported SEARCH-API-KEY as
\* the key that still holds the placeholder, whatever the other key holds, and
\* the run has made no network call.
C2_AsStated ==
    (SetupChecked /\ KeyIsPlaceholder) =>
        /\ Printed("SEARCH-API-KEY still has the placeholder value")
        /\ net = <<>>

\* C2 (amended): whenever check_env_file has run on a configuration whose
\* SEARCH-API-KEY is your-admin-api-key-here, the check has failed, the run has
\* stopped and has made no network call; SEARCH-API-KEY is the key reported if
\* SEARCH-ENDPOINT is set to a value other than its placeholder, and otherwise
\* SEARCH-ENDPOINT is reported and SEARCH-API-KEY is not.
C2_PlaceholderKeyReported ==
    (SetupChecked /\ KeyIsPlaceholder) =>
        /\ loc.ret = Some(FALSE)
        /\ pc = "done"
        /\ net = <<>>
        /\ Printed("Environment is not properly configured.")
        /\ IF Unconfigured("SEARCH-ENDPOINT")
           THEN EndpointReported /\ ~KeyReported
           ELSE Printed("SEARCH-API-KEY still has the placeholder value")
                /\ ~EndpointReported

\* C2 witness: the check has run with a real endpoint and the placeholder key.
C2_Witness ==
    /\ SetupChecked
    /\ KeyIsPlaceholder
    /\ Getenv(environ, "SEARCH-ENDPOINT") = Some("https://contoso.search.windows.net")
    /\ Printed("SEARCH-API-KEY still has the placeholder value")

\* C3: in a run of validate_connection.py whose SEARCH-ENDPOINT or
\* SEARCH-API-KEY is absent, empty or still its placeholder, list_indexes is
\* never called.
C3_NoCallOnBadConfiguration ==
    (script = "validate_connection" /\ \E k \in QuickKeys : Unconfigured(k)) =>
        ~Called("list_indexes")

---------------------------------------------------------------------------
(* The claims about the region matchers *)

CanonicalRegionNames ==
    {"East US", "West US 2", "North Europe", "West Europe",
     "UK South", "Australia East", "Canada East"}

\* check_region_support has returned in a run of check_azure_region.py
AzChecked == script = "check_azure_region" /\ loc.supports # None

\* check_service_region has looked for a region in the service name, in a run
\* of check_region.py
CrChecked == script = "check_region" /\ loc.service_lower # None

\* the lower-cased service name check_service_region looked at
CrServiceLower == loc.service_lower[1]

\* C4: check_region_support returns True for every canonical region name of
\* the allow-list and False for the unrelated string "Mars Base One".
C4_CanonicalNamesSupported ==
    AzChecked =>
        /\ loc.region[1] \in CanonicalRegionNames => loc.supports = Some(TRUE)
        /\ loc.region[1] = "Mars Base One" => loc.supports = Some(FALSE)

\* C4 witness: the matcher has rejected "Mars Base One".
C4_Witness ==
    AzChecked /\ loc.region = Some("Mars Base One") /\ loc.supports = Some(FALSE)

\* the entries of a mapping whose token occurs in s and is not part of a
\* longer token of the mapping that occurs in s too
SpecificTokens(mapping, s) ==
    { i \in 1..Len(mapping) :
        /\ Contains(s, mapping[i][1])
        /\ ~\E j \in 1..Len(mapping) :
              /\ j # i
              /\ Contains(s, mapping[j][1])
              /\ Contains(mapping[j][1], mapping[i][1]) }

\* C5: a service name or region string in which one token of the mapping
\* occurs (alone, or together with the shorter tokens it contains) is resolved
\* to that token's canonical region, and the support reported is that region's
\* membership of the allow-list.
C5_TokenResolved ==
    /\ CrChecked =>
         \A i \in 1..Len(RegionPatterns) :
             SpecificTokens(RegionPatterns, CrServiceLower) = {i} =>
                 /\ loc.found = Some(RegionPatterns[i][2])
                 /\ Printed("This region supports the Responses API!")
                        <=> RegionPatterns[i][2] \in CanonicalRegionNames
    /\ AzChecked =>
         \A i \in 1..Len(RegionMappings) :
             SpecificTokens(RegionMappings, Lower(loc.region[1])) = {i} =>
                 /\ loc.supports = Some(RegionMappings[i][2] \in CanonicalRegionNames)
                 /\ Printed("This region (" \o RegionMappings[i][2]
                            \o ") supports the Responses API!")

\* C6: check_region_support returns True only for a canonical name of the
\* allow-list or for an input whose lower-cased form contains a token of the
\* mapping; every other input yields False.
C6_ExactOrTokenOnly ==
    (AzChecked /\ loc.supports = Some(TRUE)) =>
        \/ loc.region[1] \in CanonicalRegionNames
        \/ \E i \in 1..Len(RegionMappings) :
               Contains(Lower(loc.region[1]), RegionMappings[i][1])

\* the entries of region_patterns whose token occurs in the service name
CrMatching ==
    { i \in 1..Len(RegionPatterns) : Contains(CrServiceLower, RegionPatterns[i][1]) }

\* C7: when tokens of the mapping occur in the service name,
\* check_service_region reports the region of the first matching entry in
\* mapping order, and the region of no other entry.
C7_FirstMatchWins ==
    (CrChecked /\ CrMatching # {}) =>
        LET first == CHOOSE i \in CrMatching : \A j \in CrMatching : i <= j
        IN  /\ loc.found = Some(RegionPatterns[first][2])
            /\ \A i \in 1..Len(RegionPatterns) :
                   Printed("Detected Region: " \o RegionPatterns[i][2])
                       <=> RegionPatterns[i][2] = RegionPatterns[first][2]

\* C7 witness: the service name holds the tokens eastus and eastus2, and the
\* earlier entry (eastus) is the one reported.
C7_Witness ==
    /\ CrChecked
    /\ Cardinality(CrMatching) >= 2
    /\ Contains(CrServiceLower, "eastus2")
    /\ loc.found = Some("East US")

VerdictLines ==
    {"This region supports the Responses API!",
     "This region does NOT support the Responses API."}
        \cup { "This region (" \o r \o ") supports the Responses API!" :
                   r \in CanonicalRegionNames }

NoVerdictPrinted == \A i \in 1..Len(out) : out[i] \notin VerdictLines

\* line is printed, and later every one of the seven supported regions
AllowListAfter(line) ==
    \E i \in 1..Len(out) :
        /\ out[i] = line
        /\ \A r \in CanonicalRegionNames :
               \E j \in (i + 1)..Len(out) : out[j] = "  * " \o r

ContosoEndpoint ==
    Getenv(environ, "AZURE_OPENAI_ENDPOINT") = Some("https://contoso.openai.azure.com")

\* C8: with the endpoint https://contoso.openai.azure.com and no region from
\* any other source, a finished run of check_region.py or check_azure_region.py
\* has derived no region, has said that the region could not be determined,
\* has listed the seven supported regions after that, and has printed no
\* supported/unsupported verdict.
C8_ContosoFallsBackToList ==
    /\ (script = "check_region" /\ pc = "done" /\ ContosoEndpoint) =>
           /\ loc.found = None
           /\ AllowListAfter("Could not determine region from service name.")
           /\ NoVerdictPrinted
    /\ (script = "check_azure_region" /\ pc = "done" /\ ContosoEndpoint
            /\ ~Truthy(loc.region)) =>
           /\ loc.supports = None
           /\ AllowListAfter("Could not determine region automatically.")
           /\ NoVerdictPrinted

\* C8 witness: check_azure_region.py has finished on the contoso endpoint after
\* the Azure CLI gave no region.
C8_Witness ==
    /\ script = "check_azure_region" /\ pc = "done" /\ ContosoEndpoint
    /\ loc.region = None
    /\ Called("az cognitiveservices account show")
    /\ Printed("Could not determine region automatically.")

\* C8 second witness: check_region.py has finished on the contoso endpoint.
C8_WitnessCheckRegion ==
    /\ script = "check_region" /\ pc = "done" /\ ContosoEndpoint
    /\ Printed("Could not determine region from service name.")

---------------------------------------------------------------------------
(* The claims about the probes *)

\* how often op is among the calls
Count(op) == Cardinality({ i \in 1..Len(net) : net[i] = op })

Lines(seq) == { seq[i] : i \in 1..Len(seq) }

\* the status codes whose guidance has been printed
HintsPrinted ==
    { h \in {"404", "401", "400"} : Printed("TROUBLESHOOTING " \o h \o " ERROR:") }

\* test_responses_api_availability has failed in a run of check_responses_api.py
RaFailed == script = "check_responses_api" /\ loc.success = Some(FALSE)

\* C9 (as stated): responses.create is never issued a second time, the 404
\* guidance differs from the 401 guidance, and for every failure exactly one
\* classification's guidance is printed.
C9_AsStated ==
    RaFailed =>
        /\ Count("responses.create") <= 1
        /\ Lines(Hint404) \cap Lines(Hint401) = {}
        /\ Cardinality(HintsPrinted) = 1

\* C9 (amended): responses.create is never issued a second time; a failure
\* whose text contains 404 gets the 404 guidance and no line of the 401
\* guidance, which shares no line with it; for every failure at most one
\* classification's guidance is printed, and none when the text of the error
\* contains none of 404, 401 and 400.
C9_OneAttemptAtMostOneHint ==
    RaFailed =>
        /\ Count("responses.create") <= 1
        /\ Lines(Hint404) \cap Lines(Hint401) = {}
        /\ Cardinality(HintsPrinted) <= 1
        /\ Contains(loc.error[1], "404") =>
               /\ Lines(Hint404) \subseteq Lines(out)
               /\ Lines(Hint401) \cap Lines(out) = {}
        /\ (Contains(loc.error[1], "401") /\ ~Contains(loc.error[1], "404")) =>
               /\ Lines(Hint401) \subseteq Lines(out)
               /\ Lines(Hint404) \cap Lines(out) = {}
        /\ HintsPrinted = {} <=>
               \A h \in {"404", "401", "400"} : ~Contains(loc.error[1], h)

\* C9 witness: a finished run whose only responses.create call failed with a
\* 404 and got the 404 guidance.
C9_Witness ==
    /\ RaFailed
    /\ pc = "done"
    /\ loc.error = Some("Error code: 404 - Resource not found")
    /\ net = <<"responses.create">>
    /\ HintsPrinted = {"404"}

---------------------------------------------------------------------------
(* No call is retried *)

\* the remote operations the probe scripts call
RemoteOperations ==
    {"list_indexes", "get_index", "responses.create", "chat.completions.create",
     "get_key", "wrap_key", "unwrap_key", "get_token(graph)", "get_token(storage)",
     "me.get", "me.member_of.get", "az cognitiveservices account show"}

\* C10: in every run of every probe script no call is issued twice: each
\* remote operation (token acquisition, list_indexes, responses.create,
\* chat.completions.create, get_key, wrap and unwrap among them) appears at
\* most once among the calls of the run, whatever the outcome of each call.
C10_EachCallAtMostOnce ==
    /\ \A i, j \in 1..Len(net) : net[i] = net[j] => i = j
    /\ \A op \in RemoteOperations : Count(op) <= 1

\* C10 witness: a finished run of fix_responses_api.py in which the Responses
\* call failed, the Chat Completions call failed too, and each was made once.
C10_Witness ==
    /\ script = "fix_responses_api"
    /\ pc = "done"
    /\ loc = [responses_ok |-> Some(FALSE), chat_ok |-> Some(FALSE)]
    /\ net = <<"responses.create", "chat.completions.create">>

---------------------------------------------------------------------------
(* Failures and the steps after them *)

\* the run has ended: normally, with sys.exit(1), or with an uncaught exception
Ended == pc \in {"done", "exit1", "crashed"}

AdRun == script = "check_adls_permissions"

VsRun == script = "verify_storage_permissions"

\* the header check_adls_permissions.py prints when it enters the step
AdHeader(n) ==
    CASE n = 1 -> "--- Step 1: Load environment variables ---"
      [] n = 2 -> "--- Step 2: Authenticate with Azure ---"
      [] n = 3 -> "--- Step 3: Retrieve group IDs from Microsoft Graph ---"
      [] n = 4 -> "--- Step 4: Connect to ADLS Gen2 and create container if needed ---"
      [] n = 5 -> "--- Step 5: Create 'state-parks' directory ---"
      [] n = 6 -> "--- Step 6: Set ACLs on root directory ---"
      [] n = 7 -> "--- Step 7: Create and upload to 'oregon' subdirectory ---"
      [] n = 8 -> "--- Step 8: Create and upload to 'washington' subdirectory ---"

\* the line check_adls_permissions.py prints when the step fails
AdFailure(n) ==
    CASE n = 2 -> "Azure authentication failed"
      [] n = 3 -> "Failed to retrieve group IDs"
      [] n = 4 -> "Failed to connect to or create container"
      [] n = 5 -> "Failed to create 'state-parks' directory"
      [] n = 6 -> "Failed to set root ACLs"
      [] n = 7 -> "Failed with 'oregon' subdirectory or file"
      [] n = 8 -> "Failed with 'washington' subdirectory or file"

\* C11: in the multi-step storage scripts a failed step does not abort the
\* later steps that do not depend on its result: in check_adls_permissions.py
\* a failure to retrieve the group IDs does not prevent the container and
\* directory steps, and a failure of one of steps 5-8 does not prevent the
\* others; in verify_storage_permissions.py a failure of the token step does
\* not prevent the container step.
C11_FailedStepDoesNotAbortLaterSteps ==
    /\ (AdRun /\ Ended /\ Printed(AdFailure(3))) =>
            Printed(AdHeader(4)) /\ Printed(AdHeader(5))
    /\ \A n \in 5..8 :
         (AdRun /\ Ended /\ Printed(AdFailure(n))) =>
            \A later \in (n + 1)..8 : Printed(AdHeader(later))
    /\ (VsRun /\ Ended /\ Printed("Error decoding access token")) =>
            loc.container # None \/ pc = "crashed"

---------------------------------------------------------------------------
(* Missing configuration *)

IdentifierChars == UpperChars \o "_0123456789"

IsIdentifierChar(c) ==
    \E i \in 1..Len(IdentifierChars) : SubSeq(IdentifierChars, i, i) = c

\* the line holds the name k as a whole word
Mentions(line, k) ==
    \E i \in 1..(Len(line) - Len(k) + 1) :
        /\ SubSeq(line, i, i + Len(k) - 1) = k
        /\ i > 1 => ~IsIdentifierChar(SubSeq(line, i - 1, i - 1))
        /\ i + Len(k) <= Len(line) => ~IsIdentifierChar(SubSeq(line, i + Len(k), i + Len(k)))

\* some printed line names the key
KeyNamed(k) == \E i \in 1..Len(out) : Mentions(out[i], k)

\* the script is past its reading of the configuration and k is not set
Missing(k, first_pc) == pc # first_pc /\ k \notin DOMAIN environ

\* C12: whenever a required configuration key is absent, the script stops with
\* an error that names the key it read, before any credential or client is
\* built and so before any call: the search endpoint key of
\* validate_search_service_access.py, the vault URI and the key name of
\* validate_key_vault_access.py, and the first missing storage key of
\* check_adls_permissions.py.
C12_MissingKeyNamedBeforeClients ==
    /\ (script = "validate_search_service_access" /\ Missing("AZURE_SEARCH_SERVICE", "load")) =>
            pc = "exit1" /\ net = <<>> /\ KeyNamed("AZURE_SEARCH_SERVICE")
    /\ \A k \in {"AZURE_KEY_VAULT_URI", "AZURE_KEY_VAULT_NAME"} :
         (script = "validate_key_vault_access" /\ Missing(k, "load")) =>
            pc = "exit1" /\ net = <<>> /\ KeyNamed(k)
    /\ \A i \in 1..Len(AdRequired) :
         (/\ AdRun
          /\ Missing(AdRequired[i], "step1")
          /\ \A j \in 1..(i - 1) : AdRequired[j] \in DOMAIN environ) =>
            pc = "exit1" /\ net = <<>> /\ KeyNamed(AdRequired[i])

---------------------------------------------------------------------------
(* The .env file as an optional seed *)

\* C13: when both required keys are in the environment with values that are
\* not placeholders, a run of setup_environment.py in the Quickstart directory
\* ends with the configuration check succeeding, whether or not there was a
\* .env file.
C13_EnvironmentSufficesWithoutDotEnv ==
    (/\ script = "setup_environment"
     /\ pc = "done"
     /\ fs.notebook
     /\ ~Unconfigured("SEARCH-ENDPOINT")
     /\ ~Unconfigured("SEARCH-API-KEY")) =>
        Printed("Environment is properly configured!")

---------------------------------------------------------------------------
(* The two Graph requests of msgraph_sample.py *)

MgRun == script = "msgraph_sample"

\* C14: the profile request and the membership request of msgraph_sample.main
\* are never in flight together; the membership request is issued only after
\* the profile request has completed with a profile, and never when the
\* profile request failed.
C14_RequestsOneAfterTheOther ==
    MgRun =>
        /\ Cardinality(loc.inflight) <= 1
        /\ Called("me.member_of.get") =>
               /\ loc.me # None
               /\ "me.get" \notin loc.inflight
               /\ net = <<"me.get", "me.member_of.get">>
        /\ (pc = "done" /\ loc.me = None) => net = <<"me.get">>

\* C14 witness: the membership request is in flight, alone, after the profile
\* has arrived.
C14_Witness ==
    /\ MgRun
    /\ pc = "await_member_of"
    /\ loc.me # None
    /\ loc.inflight = {"me.member_of.get"}

\* C14 witness: the profile request failed and the run ended with no
\* membership request.
C14_WitnessProfileFailed ==
    /\ MgRun
    /\ pc = "done"
    /\ loc.me = None
    /\ Printed("An error occurred")
    /\ ~Called("me.member_of.get")

---------------------------------------------------------------------------
(* Responses first, Chat Completions as the fallback *)

FrRun == script = "fix_responses_api"

\* C15: in fix_responses_api.main the Responses API is called first and the
\* Chat Completions API is called if and only if the Responses call failed;
\* after a Responses success no Chat Completions call is made; the
\* recommendation is printed in every run of main, after the last call.
C15_ChatOnlyAfterFailedResponses ==
    /\ [](FrRun =>
            /\ Called("chat.completions.create") =>
                   /\ net = <<"responses.create", "chat.completions.create">>
                   /\ loc.responses_ok = Some(FALSE)
            /\ pc \in {"recommend", "done"} =>
                   /\ net[1] = "responses.create"
                   /\ Called("chat.completions.create") <=> loc.responses_ok = Some(FALSE)
                   /\ loc.responses_ok = Some(TRUE) => net = <<"responses.create">>
            /\ pc = "done" => Printed("RECOMMENDATION:")
            /\ Printed("RECOMMENDATION:") => pc = "done")
    /\ [][(FrRun /\ Printed("RECOMMENDATION:")) => net' = net]_vars

\* C15 witness: a finished run whose Responses call succeeded: one call, then
\* the recommendation.
C15_Witness ==
    /\ FrRun
    /\ pc = "done"
    /\ loc.responses_ok = Some(TRUE)
    /\ net = <<"responses.create">>
    /\ Printed("RECOMMENDATION:")

\* C15 witness: a finished run whose Responses call failed and whose Chat
\* Completions call answered.
C15_WitnessFallback ==
    /\ FrRun
    /\ pc = "done"
    /\ loc = [responses_ok |-> Some(FALSE), chat_ok |-> Some(TRUE)]
    /\ Printed("Falling back to Chat Completions API...")
    /\ Printed("RECOMMENDATION:")

---------------------------------------------------------------------------
(* The summary of check_responses_api.py *)

RaRun == script = "check_responses_api"

\* how often the line has been printed
CountLine(line) == Cardinality({ i \in 1..Len(out) : out[i] = line })

VerdictSupports == "Your Azure OpenAI service supports the Responses API!"

VerdictNotAvailable == "Responses API is not available in your current setup."

\* what C16 says of a finished run with an endpoint
SummaryAgrees ==
    /\ CountLine("SUMMARY:") = 1
    /\ CountLine(VerdictSupports) + CountLine(VerdictNotAvailable) = 1
    /\ Printed(VerdictSupports) <=> loc.success = Some(TRUE)
    /\ loc.success = Some(TRUE) => net = <<"responses.create">>
    /\ Printed("ALTERNATIVE SOLUTIONS") <=> loc.success = Some(FALSE)

\* what C16 says of a finished run without one
NoProbeNoSummary ==
    /\ net = <<>>
    /\ ~Printed("SUMMARY:")
    /\ ~Printed(VerdictSupports)
    /\ ~Printed(VerdictNotAvailable)

\* C16 (as stated): when AZURE_OPENAI_ENDPOINT is absent no Responses call is
\* made and no summary is printed; otherwise exactly one verdict is printed,
\* "supports the Responses API" if and only if the call succeeded, and the
\* alternative solutions if and only if it failed.
C16_AsStated ==
    (RaRun /\ pc = "done") =>
        IF "AZURE_OPENAI_ENDPOINT" \notin DOMAIN environ
        THEN NoProbeNoSummary
        ELSE SummaryAgrees

\* C16 (amended): when AZURE_OPENAI_ENDPOINT is absent or empty no Responses
\* call is made and no summary is printed; otherwise exactly one verdict is
\* printed, "supports the Responses API" if and only if the call succeeded,
\* and the alternative solutions if and only if the probe failed.
C16_SummaryAgreesWithProbe ==
    (RaRun /\ pc = "done") =>
        IF ~Truthy(Getenv(environ, "AZURE_OPENAI_ENDPOINT"))
        THEN NoProbeNoSummary
        ELSE SummaryAgrees

\* C16 witness: a finished run whose call succeeded, with the verdict of a
\* success and no alternatives.
C16_Witness ==
    /\ RaRun
    /\ pc = "done"
    /\ loc.success = Some(TRUE)
    /\ Printed(VerdictSupports)
    /\ ~Printed("ALTERNATIVE SOLUTIONS")

\* C16 witness: a finished run with an empty endpoint: no call, no summary.
C16_WitnessEmptyEndpoint ==
    /\ RaRun
    /\ pc = "done"
    /\ Getenv(environ, "AZURE_OPENAI_ENDPOINT") = Some("")
    /\ net = <<>>
    /\ ~Printed("SUMMARY:")

---------------------------------------------------------------------------
(* The key vault round trip *)

KvRun == script = "validate_key_vault_access"

KvSuccess == "Validation successful: Access and cryptographic permissions are correct!"

KvErrors ==
    {"HTTP error", "Error", "Validation failed: Unwrapped key does not match original."}

\* key retrieval, wrap and unwrap succeeded and the round trip gave the
\* plaintext back
KvRoundTrip ==
    /\ loc.key # None
    /\ loc.wrap_result # None
    /\ loc.unwrap_result = Some(Plaintext)

\* C17: validate_key_vault_access.py prints "Validation successful" if and
\* only if key retrieval, wrap and unwrap all succeeded and the unwrapped key
\* equals the 32-byte plaintext; wrap is never attempted before the key is
\* retrieved nor unwrap before wrap succeeded; a run that ends after a failure
\* of one of them has printed an error and no success message.
C17_SuccessIffRoundTrip ==
    KvRun =>
        /\ Len(Plaintext) = 32
        /\ Printed(KvSuccess) <=> KvRoundTrip
        /\ Called("wrap_key") => (loc.key # None /\ net[1] = "get_key")
        /\ Called("unwrap_key") =>
               (loc.wrap_result # None /\ net = <<"get_key", "wrap_key", "unwrap_key">>)
        /\ (pc = "done" /\ ~KvRoundTrip) =>
               /\ ~Printed(KvSuccess)
               /\ \E e \in KvErrors : Printed(e)

\* C17 witness: a finished run whose three calls succeeded and whose
\* unwrapped key is the plaintext.
C17_Witness ==
    /\ KvRun
    /\ pc = "done"
    /\ KvRoundTrip
    /\ net = <<"get_key", "wrap_key", "unwrap_key">>
    /\ Printed(KvSuccess)

\* C17 witness: a finished run whose unwrap succeeded with another key.
C17_WitnessMismatch ==
    /\ KvRun
    /\ pc = "done"
    /\ loc.unwrap_result # None
    /\ loc.unwrap_result # Some(Plaintext)
    /\ Printed("Validation failed: Unwrapped key does not match original.")

---------------------------------------------------------------------------
(* The files of the setup script *)

SetupRun == script = "setup_environment"

\* the states of the working directory create_env_file() may be called in
SetupDirectories ==
    [notebook : BOOLEAN,
     sampleEnv : {None, Some(SampleEnvContent)},
     dotEnv : {None} \cup { Some(c) : c \in QuickEnvironments }]

\* C18: the setup script never modifies an existing .env file:
\* create_env_file() copies sample.env to .env only when there is no .env,
\* main calls it only when there is no .env, and a run outside the Quickstart
\* directory (no notebook file) creates nothing and reads nothing.
C18_ExistingDotEnvUntouched ==
    /\ [](\A f \in SetupDirectories, copyOk \in BOOLEAN :
            LET r == CreateEnvFile(f, copyOk)
            IN  /\ f.dotEnv # None => r.fs = f
                /\ r.fs # f => (f.dotEnv = None /\ r.fs = [f EXCEPT !.dotEnv = f.sampleEnv]))
    /\ [](SetupRun =>
            /\ pc = "create_env" => fs.dotEnv = None
            /\ ~fs.notebook => (loc.ret = None /\ ~Printed("Creating .env file...")
                                /\ ~Printed("Checking environment variables...")))
    /\ [][SetupRun =>
            /\ fs.dotEnv # None => fs' = fs
            /\ fs' # fs => (fs.dotEnv = None /\ fs' = [fs EXCEPT !.dotEnv = fs.sampleEnv])
            /\ ~fs.notebook => (fs' = fs /\ environ' = environ)]_vars

\* C18 witness: .env has been created from sample.env in a directory that had
\* none.
C18_Witness ==
    /\ SetupRun
    /\ Printed("Created .env file from sample.env")
    /\ fs.dotEnv = fs.sampleEnv
    /\ fs.dotEnv # None

\* C18 witness: a finished run outside the Quickstart directory.
C18_WitnessOutside ==
    /\ SetupRun
    /\ pc = "done"
    /\ ~fs.notebook
    /\ Printed("Please run this script from the Quickstart directory")

---------------------------------------------------------------------------
(* The solution of fix_notebook.py *)

FnRun == script = "fix_notebook"

\* C19: in fix_notebook.main both APIs are called exactly once each whatever
\* the other's outcome; "Use Chat Completions API - it works!" is printed
\* exactly when the Chat Completions call succeeded, and "Both APIs failed"
\* only when the Responses call and the Chat Completions call both failed.
C19_SolutionAgreesWithProbes ==
    (FnRun /\ pc = "done") =>
        /\ Count("responses.create") = 1
        /\ Count("chat.completions.create") = 1
        /\ Printed("Use Chat Completions API - it works!")
               <=> Printed("Chat Completions API works!")
        /\ Printed("Both APIs failed. Check your configuration.") =>
               (~Printed("Responses API works!") /\ ~Printed("Chat Completions API works!"))

---------------------------------------------------------------------------
(* The ACL updates of check_adls_permissions.py *)

IsAclUpdate(call) == Contains(call, ".update_access_control_recursive(")

\* the call is an ACL update on the directory client of that name
IsAclUpdateOn(call, name) ==
    SubSeq(call, 1, Len(name) + 1) = name \o "." /\ IsAclUpdate(call)

\* the call is one of those step 7 or step 8 makes for the state
IsCallFor(call, state) ==
    \E n \in 1..6 :
        \E group_id \in {GroupIds[1], GroupIds[2]} :
            call = SubDirectoryCalls(state, state \o "_state_parks.csv", group_id)[n]

\* the ACL updates on the sub-directory are at most the one for the group,
\* made after the upload of the file of the sub-directory, and the grants the
\* run has made on its path are for that group only
OnlyGrant(state, group_id) ==
    LET updates == { i \in 1..Len(net) : IsAclUpdateOn(net[i], state) }
        upload == state \o "_state_parks.csv.upload_data"
    IN  /\ Cardinality(updates) <= 1
        /\ \A i \in updates :
             /\ net[i] = state \o ".update_access_control_recursive(group:" \o group_id \o ":rwx)"
             /\ \E j \in 1..(i - 1) : net[j] = upload
        /\ loc.acl["state-parks/" \o state] \subseteq {group_id}

\* C20: check_adls_permissions.py issues no ACL update unless two group IDs
\* were obtained and the container step succeeded; in a run on a container
\* that held neither sub-directory, the root ACL updates come before the
\* creation of 'oregon' and of 'washington', so the only ACL update applied to
\* 'oregon' grants the first group and the only one applied to 'washington'
\* the second, each after the upload of the file of its directory.
C20_AclUpdatesInOrder ==
    AdRun =>
        /\ (\E i \in 1..Len(net) : IsAclUpdate(net[i])) =>
               /\ loc.first_group_id = Some(GroupIds[1])
               /\ loc.second_group_id = Some(GroupIds[2])
               /\ loc.container # None
        /\ (loc.existed \cap {"state-parks/oregon", "state-parks/washington"} = {}) =>
               /\ \A i, j \in 1..Len(net) :
                    (/\ IsAclUpdateOn(net[i], "root")
                     /\ IsCallFor(net[j], "oregon") \/ IsCallFor(net[j], "washington")) => i < j
               /\ OnlyGrant("oregon", GroupIds[1])
               /\ OnlyGrant("washington", GroupIds[2])

\* C20 witness: a finished run on a container without the sub-directories in
\* which every call succeeded: both root updates, then each directory with its
\* one grant.
C20_Witness ==
    /\ AdRun
    /\ pc = "done"
    /\ loc.existed = {}
    /\ Len(net) = 19
    /\ Printed("'washington' subdirectory and file created, ACL set.")
    /\ loc.acl = [p \in Paths |->
                    CASE p = "state-parks/oregon" -> {GroupIds[1]}
                      [] p = "state-parks/washington" -> {GroupIds[2]}
                      [] OTHER -> {GroupIds[1], GroupIds[2]}]

---------------------------------------------------------------------------
(* The API key as the Quickstart scripts show it *)

\* the labels the two scripts print the key after
KeyLabels == {"SEARCH-API-KEY: ", "API Key: "}

StartsWith(line, l) == Len(line) >= Len(l) /\ SubSeq(line, 1, Len(l)) = l

\* the printed form hides the key: as long as the key, at least one '*', and
\* '*' at every place but the last four
Masked(shown, key) ==
    /\ Len(shown) = Len(key)
    /\ \E i \in 1..Len(shown) : SubSeq(shown, i, i) = "*"
    /\ \A i \in 1..(Len(key) - 4) : SubSeq(shown, i, i) = "*"
    /\ \A i \in 1..Len(shown) :
         SubSeq(shown, i, i) # "*" => SubSeq(shown, i, i) = SubSeq(key, i, i)

\* C21: the Quickstart scripts never display the API key in full: for every
\* non-empty key, the printed form has the length of the key, masks at least
\* one character with '*', and reveals no character but the last four of the
\* key.
C21_KeyNeverShownInFull ==
    (script \in {"setup_environment", "validate_connection"}) =>
        \A i \in 1..Len(out), l \in KeyLabels :
            StartsWith(out[i], l) =>
                /\ Truthy(Getenv(environ, "SEARCH-API-KEY"))
                /\ Masked(SubSeq(out[i], Len(l) + 1, Len(out[i])),
                          environ["SEARCH-API-KEY"])

====
